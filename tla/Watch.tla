-------------------------------- MODULE Watch --------------------------------
(***************************************************************************)
(* The native change detection of AutoScan: one worker thread, the FSEvents *)
(* streams of the two roots, and the cursor it keeps on disk.               *)
(*                                                                         *)
(* The system appends to a journal per volume and calls back with batches   *)
(* of events; the callback reduces them under one lock and sends a batch    *)
(* down a channel; the worker latches batches into a trigger, takes a       *)
(* ticket when there is work, hands it to the desktop, and saves the cursor *)
(* of the ticket when the compare it asked for was published.  When the     *)
(* journal cannot be trusted the worker goes on by polling.                 *)
(*                                                                         *)
(* version[s] counts the changes of root s, verified[s] the ones a          *)
(* successful compare has seen.  A cursor carries `upto`, the version its   *)
(* event id stood for when it was taken: the code cannot see it, only the   *)
(* properties read it.                                                      *)
(***************************************************************************)
EXTENDS Naturals, Sequences, FiniteSets

CONSTANTS Streams,      \* the watched roots: source and target
          MaxChanges,   \* bound: changes made to each root
          MaxMishaps,   \* bound: failures, dropped histories, new journals, crashes
          MaxPaths,     \* WatchConfig::max_paths
          FullRigor,    \* RigorPolicy::requires_full_verification
          None, Missing, Spoiled, Broken  \* no value, no file, a damaged file, a backend error

VARIABLES version, verified,   \* the roots, and what compares have seen of them
          journal,             \* per root: its number, last event id, version it began at
          undelivered,         \* per root: events the system has not called back with
          cursor,              \* per root: the reducer's cursor
          channel,             \* batches sent and not yet received
          trigger,             \* WatchTrigger
          saved,               \* the checkpoint file
          work,                \* the compare the desktop runs for the ticket
          commands,            \* completions sent to the worker
          stage,               \* where the worker is
          due, resting,        \* periodic deadline passed; retry_not_before not reached
          mishaps

watchVars == <<version, verified, journal, undelivered, cursor, channel, trigger,
               saved, work, commands, stage, due, resting, mishaps>>
worldVars == <<version, journal>>
pipeVars == <<undelivered, cursor, channel>>
deskVars == <<verified, work, commands>>

\* A path below the root; the root itself, another path, or a flag that events were dropped, the
\* root was moved or unmounted; the marker behind replayed history.
Kinds == {"inside", "elsewhere", "done"}

Cursors == [uuid : Nat, resets : Nat, id : Nat, upto : Nat]
Positions == [Streams -> Cursors]
Events == [id : Nat, at : Nat, kind : Kinds, wrapped : BOOLEAN]
Batches == [through : Positions, paths : SUBSET (Streams \X Nat), invalid : BOOLEAN]
Reasons == {"bootstrap", "periodic", "policy", "invalid", "too large"}
TicketIds == {1, 2}          \* a ticket is told apart from the one before it
Tickets == [id : TicketIds, through : Positions, full : Reasons \cup {None},
            paths : SUBSET (Streams \X Nat)]
Works == [id : TicketIds, sees : {None} \cup [Streams -> Nat]]
Stages == {"off", "commands", "periodic", "rest", "polling"}

ASSUME WatchAssumption == /\ IsFiniteSet(Streams) /\ Streams # {}
                          /\ {MaxChanges, MaxMishaps, MaxPaths} \subseteq Nat
                          /\ FullRigor \in BOOLEAN
                          /\ None \notin Reasons \cup Tickets \cup Works

Mishap == mishaps < MaxMishaps /\ mishaps' = mishaps + 1

NoTrigger == [boot |-> FALSE, observed |-> None, paths |-> {}, full |-> None,
              debounce |-> "off", active |-> None, next |-> 1]

WatchInit ==
  /\ version = [s \in Streams |-> 0] /\ verified = [s \in Streams |-> 0]
  /\ journal = [s \in Streams |-> [uuid |-> 1, last |-> 0, base |-> 0]]
  /\ undelivered = [s \in Streams |-> <<>>]
  /\ cursor = None
  /\ channel = <<>> /\ trigger = NoTrigger /\ saved = Missing
  /\ work = None /\ commands = <<>>
  /\ stage = "off" /\ due = FALSE /\ resting = FALSE /\ mishaps = 0

(*************************** the roots and the journals **********************)
\* Only a running native worker has streams the system queues events for.
Listening == stage \notin {"off", "polling"}

\* A root changes: below it, at it, or (a renamed mount, a link) reported outside it.
Change(s) ==
  /\ version[s] < MaxChanges
  /\ version' = [version EXCEPT ![s] = @ + 1]
  /\ journal' = [journal EXCEPT ![s].last = @ + 1]
  /\ \E kind \in {"inside", "elsewhere"} :
       undelivered' = IF Listening
                      THEN [undelivered EXCEPT ![s] = Append(@,
                              [id |-> journal[s].last + 1, at |-> version[s] + 1,
                               kind |-> kind, wrapped |-> FALSE])]
                      ELSE undelivered
  /\ UNCHANGED <<verified, cursor, channel, trigger, saved, work, commands, stage,
                 due, resting, mishaps>>

\* The ids of a journal start again while it is watched; an event says so, or the next one
\* only carries an id lower than the cursor's.
Wrap(s) ==
  /\ Listening
  /\ Mishap
  /\ journal' = [journal EXCEPT ![s] = [@ EXCEPT !.last = 0, !.base = version[s]]]
  /\ \E told \in BOOLEAN :
       undelivered' = IF told THEN [undelivered EXCEPT ![s] = Append(@,
                                     [id |-> 0, at |-> version[s], kind |-> "elsewhere",
                                      wrapped |-> TRUE])]
                      ELSE undelivered
  /\ UNCHANGED <<version, verified, cursor, channel, trigger, saved, work, commands,
                 stage, due, resting>>

\* The volume gets a new journal while nobody watches it.
ReplaceJournal(s) ==
  /\ ~Listening
  /\ Mishap
  /\ journal' = [journal EXCEPT ![s] = [uuid |-> @.uuid + 1, last |-> 0,
                                        base |-> version[s]]]
  /\ UNCHANGED <<version, verified, undelivered, cursor, channel, trigger, saved, work,
                 commands, stage, due, resting>>

(********************************* the callback ******************************)
\* One event after the other moves the reducer's cursor: it stands at the last event that has an
\* id or the flag, and each id lower than the one before it, or the flag, begins a new epoch.
Moves(e) == e.wrapped \/ e.id # 0
StandsAt(c, events, n) ==
  LET last == {k \in 1..n : Moves(events[k]) /\ \A i \in (k + 1)..n : ~Moves(events[i])}
  IN  IF last = {} THEN [id |-> c.id, at |-> c.upto] ELSE events[CHOOSE k \in last : TRUE]
Regressions(c, events) ==
  {i \in DOMAIN events : \/ events[i].wrapped
                         \/ events[i].id # 0 /\ events[i].id < StandsAt(c, events, i - 1).id}
MovedBy(c, events) ==
  LET e == StandsAt(c, events, Len(events))
  IN  [c EXCEPT !.resets = @ + Cardinality(Regressions(c, events)), !.id = e.id, !.upto = e.at]

\* EventReducer::reduce: hints for what lies below the root, an invalidation for the rest;
\* the marker that ends replayed history has no path.
Hints(s, events) == {<<s, events[i].at>> : i \in {j \in DOMAIN events : events[j].kind = "inside"}}
Untrusted(s, events) ==
  \/ Regressions(cursor[s], events) # {}
  \/ \E i \in DOMAIN events : events[i].kind \notin {"inside", "done"}

\* The callback holds the reducer's lock until its batch is in the channel.
CallBack(s, events) ==
  LET c == [cursor EXCEPT ![s] = MovedBy(@, events)]
      batch == [through |-> c, paths |-> Hints(s, events), invalid |-> Untrusted(s, events)]
  IN /\ cursor' = c
     /\ channel' = IF batch.paths = {} /\ ~batch.invalid THEN channel ELSE Append(channel, batch)

Deliver(s) ==
  /\ Listening /\ cursor # None
  /\ \E n \in 1..Len(undelivered[s]) :
       /\ CallBack(s, SubSeq(undelivered[s], 1, n))
       /\ undelivered' = [undelivered EXCEPT ![s] = SubSeq(@, n + 1, Len(@))]
  /\ UNCHANGED <<worldVars, deskVars, trigger, saved, stage, due, resting, mishaps>>

\* Too many events: the system keeps the last id and says that it dropped the others.
DeliverDropped(s) ==
  /\ Listening /\ undelivered[s] # <<>> /\ Mishap
  /\ CallBack(s, <<[undelivered[s][Len(undelivered[s])] EXCEPT !.kind = "elsewhere"]>>)
  /\ undelivered' = [undelivered EXCEPT ![s] = <<>>]
  /\ UNCHANGED <<worldVars, deskVars, trigger, saved, stage, due, resting>>

\* A path that is no UTF-8, a null path, a panic: the batch is lost, the worker is told.
DeliverError(s) ==
  /\ Listening /\ undelivered[s] # <<>> /\ Mishap
  /\ undelivered' = [undelivered EXCEPT ![s] = <<>>]
  /\ channel' = Append(channel, Broken)
  /\ UNCHANGED <<worldVars, deskVars, cursor, trigger, saved, stage, due, resting>>

(******************************* arming the streams **************************)
\* prepare_root: the saved cursor counts only in the same journal and epoch, and not ahead of it.
Resumes(s) ==
  /\ saved \notin {Missing, Spoiled}
  /\ saved[s].uuid = journal[s].uuid /\ saved[s].resets = 0
  /\ saved[s].id <= journal[s].last
Prepared(s) ==
  IF Resumes(s) THEN saved[s]
  ELSE [uuid |-> journal[s].uuid, resets |-> 0, id |-> journal[s].last, upto |-> version[s]]

\* What the system replays from the resumed id, and the marker behind it.
Replayed(s) ==
  IF Resumes(s) /\ saved[s].id < journal[s].last
  THEN [i \in 1..(journal[s].last - saved[s].id) |->
          [id |-> saved[s].id + i, at |-> journal[s].base + saved[s].id + i,
           kind |-> "inside", wrapped |-> FALSE]]
       \o <<[id |-> 0, at |-> 0, kind |-> "done", wrapped |-> FALSE]>>
  ELSE <<>>

\* run_native_macos: load, arm both streams, only then may the bootstrap compare begin.  The
\* invalidations found while arming are not passed on: the bootstrap reads everything anyway.
Arm ==
  /\ stage = "off" /\ work = None /\ commands = <<>>
  /\ cursor' = [s \in Streams |-> Prepared(s)]
  /\ undelivered' = [s \in Streams |-> Replayed(s)]
  /\ channel' = <<>>
  /\ trigger' = [NoTrigger EXCEPT !.boot = TRUE, !.observed = cursor']
  /\ stage' = "commands" /\ due' = FALSE /\ resting' = FALSE
  /\ UNCHANGED <<worldVars, deskVars, saved, mishaps>>

\* The streams cannot be armed: polling has the rest of this generation, after an interval.
ArmFails ==
  /\ stage = "off" /\ work = None /\ commands = <<>> /\ Mishap
  /\ stage' = "polling" /\ due' = FALSE /\ resting' = FALSE
  /\ UNCHANGED <<worldVars, pipeVars, deskVars, trigger, saved>>

(******************************** WatchTrigger *******************************)
Follows(old, new) ==
  \A s \in Streams : /\ new[s].uuid = old[s].uuid /\ new[s].resets = old[s].resets
                     /\ new[s].id >= old[s].id

\* observe: a hint joins the others unless a full scan is latched or there are too many.
Observed(t, batch) ==
  LET all == t.paths \cup batch.paths
      base == [t EXCEPT !.observed = batch.through]
      again == [base EXCEPT !.debounce = "running"]
  IN IF batch.invalid \/ ~Follows(t.observed, batch.through)
     THEN [again EXCEPT !.paths = {}, !.full = "invalid"]
     ELSE IF batch.paths = {} THEN base
     ELSE IF t.full # None THEN again
     ELSE IF Cardinality(all) > MaxPaths THEN [again EXCEPT !.paths = {}, !.full = "too large"]
     ELSE [again EXCEPT !.paths = all]

\* request_periodic: never over a stronger reason, and due at once.
Periodically(t, position) ==
  [t EXCEPT !.full = IF ~Follows(t.observed, position) THEN "invalid"
                     ELSE IF @ = None THEN "periodic" ELSE @,
            !.observed = position, !.debounce = "over"]

Latched(t) == t.boot \/ t.full # None \/ t.paths # {}
HasWork(t) == t.active = None /\ Latched(t) /\ (t.boot \/ t.debounce # "running")

TicketOf(t) ==
  [id |-> t.next, through |-> t.observed,
   full |-> IF t.boot THEN "bootstrap" ELSE IF t.full # None THEN t.full
            ELSE IF FullRigor THEN "policy" ELSE None,
   paths |-> IF t.boot \/ t.full # None \/ FullRigor THEN {} ELSE t.paths]
Taken(t) == [t EXCEPT !.active = TicketOf(t), !.next = 3 - @, !.boot = FALSE,
                      !.full = None, !.paths = {}, !.debounce = "off"]

Discarded(t) == [t EXCEPT !.active = None]
StillActive(t) == [t EXCEPT !.full = "invalid", !.debounce = "over"]

\* requeue: a failed ticket's work joins what was latched meanwhile.
Requeued(t) ==
  [t EXCEPT !.active = None,
            !.full = IF @ = None THEN t.active.full ELSE @,
            !.paths = IF t.full = None /\ t.active.full = None THEN @ \cup t.active.paths ELSE @,
            !.debounce = IF @ = "off" THEN "over" ELSE @]

(********************************* the worker ********************************)
\* VerificationPublished: the cursor is on disk before the ticket is given up.
PersistLatest(position) == saved' = trigger.observed
Persist(position) == saved' = position

CompletionArrives ==
  /\ stage = "commands" /\ commands # <<>> /\ Head(commands)[1] = "published"
  /\ commands' = Tail(commands)
  /\ IF trigger.active = None \/ trigger.active.id # Head(commands)[2]
     THEN UNCHANGED <<trigger, saved, mishaps>>
     ELSE \/ /\ Persist(trigger.active.through) /\ trigger' = Discarded(trigger)
             /\ UNCHANGED mishaps
          \/ /\ Mishap /\ trigger' = Requeued(trigger) /\ UNCHANGED saved
  /\ due' = FALSE /\ resting' = TRUE
  /\ UNCHANGED <<worldVars, pipeVars, verified, work, stage>>

Terminated ==
  /\ stage = "commands" /\ commands # <<>> /\ Head(commands)[1] = "terminated"
  /\ commands' = Tail(commands)
  /\ trigger' = IF trigger.active = None \/ trigger.active.id # Head(commands)[2]
                THEN trigger ELSE Requeued(trigger)
  /\ due' = FALSE /\ resting' = TRUE
  /\ UNCHANGED <<worldVars, pipeVars, verified, work, saved, stage, mishaps>>

\* recv_timeout: one message or none; an error hands over to polling, which waits an interval.
Receive ==
  /\ stage = "commands" /\ commands = <<>> /\ channel # <<>>
  /\ IF Head(channel) = Broken
     THEN /\ stage' = "polling" /\ trigger' = NoTrigger /\ due' = FALSE
          /\ undelivered' = [s \in Streams |-> <<>>] /\ channel' = <<>> /\ cursor' = None
     ELSE /\ stage' = "periodic" /\ channel' = Tail(channel)
          /\ trigger' = Observed(trigger, Head(channel))
          /\ UNCHANGED <<undelivered, cursor, due>>
  /\ UNCHANGED <<worldVars, deskVars, saved, resting, mishaps>>

ReceiveTimesOut ==
  /\ stage = "commands" /\ commands = <<>> /\ channel = <<>>
  /\ stage' = "periodic"
  /\ UNCHANGED <<worldVars, pipeVars, deskVars, trigger, saved, due, resting, mishaps>>

\* The periodic request reads the reducer, which may be ahead of what was received.
Periodic ==
  /\ stage = "periodic" /\ stage' = "rest"
  /\ trigger' = IF due THEN Periodically(trigger, cursor) ELSE trigger
  /\ due' = FALSE
  /\ UNCHANGED <<worldVars, pipeVars, deskVars, saved, resting, mishaps>>

\* Nothing is taken before retry_not_before; a ticket goes to the desktop.
TakeWork ==
  /\ stage = "rest" /\ stage' = "commands"
  /\ IF ~resting /\ HasWork(trigger)
     THEN trigger' = Taken(trigger) /\ work' = [id |-> trigger.next, sees |-> None]
     ELSE UNCHANGED <<trigger, work>>
  /\ UNCHANGED <<worldVars, pipeVars, verified, commands, saved, due, resting, mishaps>>

(********************************** polling **********************************)
\* run_polling: one ticket at a time, each a full verification, an interval apart.
PollingTakes ==
  /\ stage = "polling" /\ work = None /\ commands = <<>> /\ due
  /\ work' = [id |-> 1, sees |-> None] /\ due' = FALSE
  /\ UNCHANGED <<worldVars, pipeVars, verified, commands, trigger, saved, stage, resting, mishaps>>

PollingHears ==
  /\ stage = "polling" /\ commands # <<>> /\ commands' = Tail(commands) /\ due' = FALSE
  /\ UNCHANGED <<worldVars, pipeVars, verified, work, trigger, saved, stage, resting, mishaps>>

(******************************** the desktop ********************************)
CompareStarts ==
  /\ work # None /\ work.sees = None
  /\ work' = [work EXCEPT !.sees = version]
  /\ UNCHANGED <<worldVars, pipeVars, verified, commands, trigger, saved, stage, due,
                 resting, mishaps>>

\* What changed after the compare began reading may be missing from it.
CompareSucceeds ==
  /\ work # None /\ work.sees # None
  /\ verified' = [s \in Streams |-> IF work.sees[s] > verified[s] THEN work.sees[s] ELSE verified[s]]
  /\ commands' = Append(commands, <<"published", work.id>>) /\ work' = None
  /\ UNCHANGED <<worldVars, pipeVars, trigger, saved, stage, due, resting, mishaps>>

\* Declined, cancelled or failed, before it began or while it read.
CompareFails ==
  /\ work # None /\ Mishap
  /\ commands' = Append(commands, <<"terminated", work.id>>) /\ work' = None
  /\ UNCHANGED <<worldVars, pipeVars, verified, trigger, saved, stage, due, resting>>

(************************* time, the process and the file *********************)
QuietPasses ==
  /\ trigger.debounce = "running" /\ trigger' = [trigger EXCEPT !.debounce = "over"]
  /\ UNCHANGED <<worldVars, pipeVars, deskVars, saved, stage, due, resting, mishaps>>

IntervalPasses ==
  /\ stage # "off" /\ ~due /\ (work = None \/ stage # "polling")
  /\ due' = TRUE /\ resting' = FALSE
  /\ UNCHANGED <<worldVars, pipeVars, deskVars, trigger, saved, stage, mishaps>>

\* The process dies, or AutoScan is stopped and armed again.
Restart ==
  /\ stage # "off" /\ Mishap
  /\ stage' = "off" /\ work' = None /\ commands' = <<>> /\ trigger' = NoTrigger
  /\ undelivered' = [s \in Streams |-> <<>>] /\ channel' = <<>>
  /\ cursor' = None /\ due' = FALSE /\ resting' = FALSE
  /\ UNCHANGED <<worldVars, verified, saved>>

\* The checkpoint is damaged, of another schema or another job: the load ignores it.
SpoilCheckpoint ==
  /\ stage = "off" /\ saved \notin {Missing, Spoiled} /\ Mishap /\ saved' = Spoiled
  /\ UNCHANGED <<worldVars, pipeVars, deskVars, trigger, stage, due, resting>>

CallsBack == \E s \in Streams : Deliver(s)
WorkerTurns == \/ Arm \/ CompletionArrives \/ Terminated \/ Receive \/ ReceiveTimesOut
               \/ Periodic \/ TakeWork \/ PollingTakes \/ PollingHears
CompareTurns == CompareStarts \/ CompareSucceeds
TimePasses == QuietPasses \/ IntervalPasses

WatchNext ==
  \/ \E s \in Streams : Change(s) \/ Wrap(s) \/ ReplaceJournal(s)
                        \/ DeliverDropped(s) \/ DeliverError(s)
  \/ CallsBack \/ WorkerTurns \/ CompareTurns \/ CompareFails
  \/ TimePasses \/ ArmFails \/ Restart \/ SpoilCheckpoint

\* The threads keep running, calls come back, time passes; people and failures may stop.
WatchFairness ==
  /\ \A s \in Streams : WF_watchVars(Deliver(s))
  /\ WF_watchVars(WorkerTurns) /\ WF_watchVars(CompareTurns)
  /\ WF_watchVars(QuietPasses) /\ WF_watchVars(IntervalPasses)

WatchSpec == WatchInit /\ [][WatchNext]_watchVars /\ WatchFairness

(******************************** properties *********************************)
WatchTypeOK ==
  /\ version \in [Streams -> Nat] /\ verified \in [Streams -> Nat]
  /\ \A s \in Streams : undelivered[s] \in Seq(Events)
  /\ cursor \in {None} \cup Positions
  /\ \A i \in DOMAIN channel : channel[i] = Broken \/ channel[i] \in Batches
  /\ trigger.active \in {None} \cup Tickets /\ trigger.full \in Reasons \cup {None}
  /\ Len(commands) <= 1 /\ (work # None => commands = <<>>)
  /\ saved \in {Missing, Spoiled} \cup Positions
  /\ stage \in Stages /\ due \in BOOLEAN /\ resting \in BOOLEAN

\* The cursor on disk never stands for a change that no published compare has read, whatever
\* the order of events, requests and completions: a replay from it skips nothing unverified.
CheckpointIsEarned ==
  saved \notin {Missing, Spoiled} => \A s \in Streams : saved[s].upto <= verified[s]

\* A change nobody has verified is on its way to the worker, latched, or part of a compare
\* that has not begun to read.
NothingIsForgotten ==
  Listening => \A s \in Streams : version[s] > verified[s] =>
    \/ \E i \in DOMAIN undelivered[s] : undelivered[s][i].at > verified[s]
    \/ channel # <<>> \/ Latched(trigger)
    \/ work # None /\ (work.sees = None \/ work.sees[s] = version[s])
    \/ \E i \in DOMAIN commands : commands[i][1] = "terminated"

\* Every change is read by a compare that gets published, by events, by the periodic request
\* or by polling, across failures and restarts.
ChangesAreVerified ==
  \A s \in Streams : \A v \in 1..MaxChanges : version[s] >= v ~> verified[s] >= v

\* "local macOS roots also react to FSEvents": what is latched and quiet does not wait for
\* the interval.
ReactsToChanges ==
  ~(Listening /\ stage = "rest" /\ HasWork(trigger) /\ trigger.paths # {} /\ resting)
==============================================================================
