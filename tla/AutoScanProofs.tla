--------------------------- MODULE AutoScanProofs ---------------------------
(***************************************************************************)
(* On what evidence the program writes: every apply uses a compare that    *)
(* began after the last write of its revision, and an unattended one works  *)
(* for the latest trigger, for any number of tasks, revisions, targets,     *)
(* compares and generations.                                               *)
(*                                                                         *)
(* The argument: one task holds the run slot from before a compare is       *)
(* launched until its result is published, and from before an apply writes  *)
(* until it has expired what it made stale (SlotHeld), so a fresh result    *)
(* has seen every write of its revision but that of the task in the slot    *)
(* (FreshIsCurrent).  A token or a ticket names a run that was published    *)
(* under its own scope and is never launched again (Bound); a permit is of  *)
(* its generation (PermitsBelong); and a trigger dirties the evidence       *)
(* before it replaces the ticket (DirtiedIsStale).                          *)
(*                                                                         *)
(* The second invariant, Watchful, is about who is left waiting: every open *)
(* verification has somebody to end it, a worker that waits is told, and    *)
(* what may start an apply was issued after the last save.                  *)
(***************************************************************************)
EXTENDS AutoScan, SequenceTheorems, TLAPS

USE AutoScanAssumption DEF AutoScanAssumption

AtRun == {"started", "comparing", "applying", "writing", "written"}
AtCompare == {"started", "comparing"}

SlotHeld == \A t \in Task : work[t].at \in AtRun => slot = t

\* The compare at work is the last one, and no run after it or of it is retained.
LastRun ==
  /\ \A t \in Task : work[t].at \in AtCompare => work[t].run = runs /\ runs # 0 /\ ~result[runs].kept
  /\ \A r \in 1..MaxRuns : result[r].kept => r <= runs

\* A run that was published, or failed: nobody will launch it again.
Known(r) == r \in 1..runs /\ \A t \in Task : work[t].at \in AtCompare => r # runs
Bound(run, scope) == Known(run) /\ result[run].scope = scope

TokensBound ==
  /\ \A k \in tokens : IsApply(k) => Bound(k.run, k.scope)
  /\ \A t \in Task : work[t].at \in {"claimed", "prepared"} => Bound(work[t].token.run, work[t].token.scope)
  /\ shared.ticket.at = "completed" /\ active # NoGeneration => Bound(shared.ticket.run, active.scope)

Launched(t) ==
  /\ result[work[t].run].scope = work[t].token.scope
  /\ result[work[t].run].wrote = wrote[work[t].token.scope.rev]

FreshIsCurrent ==
  \A s \in Scope : exec[s].at = "fresh" =>
    /\ exec[s].run \in 1..MaxRuns
    /\ result[exec[s].run].kept /\ result[exec[s].run].scope = s
    /\ \/ result[exec[s].run].wrote = wrote[s.rev]
       \/ \E t \in Task : work[t].at = "writing" /\ work[t].token.scope.rev = s.rev

Current ==
  /\ FreshIsCurrent
  /\ \A t \in Task : work[t].at = "comparing" => Launched(t)
  /\ \A t \in Task : work[t].at = "applying" =>
       /\ work[t].token.run \in 1..MaxRuns
       /\ result[work[t].token.run].wrote = wrote[work[t].token.scope.rev]

\* The generation at work is the one the worker was started for.
Linked ==
  /\ active # NoGeneration =>
       active \in Generation /\ active.gen # 0 /\ active.gen = shared.gen /\ active.scope = worker.scope
  /\ gate.for = "start" => gate.next \in Generation /\ gate.next.gen = shared.gen + 1

Belongs(k) ==
  /\ k.permit.gen <= shared.gen
  /\ k.permit.gen = shared.gen /\ k.permit.gen # 0 => k.scope = worker.scope

PermitsBelong ==
  /\ \A k \in tokens : Belongs(k)
  /\ \A t \in Task : work[t].at # "idle" => Belongs(work[t].token)

TicketIsLast ==
  /\ shared.ticket.at # "idle" =>
       /\ shared.live
       /\ worker.id = IF worker.at \in {"observed", "dirtied"} THEN shared.ticket.id + 1
                      ELSE shared.ticket.id
  /\ worker.at \in {"observed", "dirtied"} => shared.ticket.at \notin Pending

StaleRun(run) == ~(exec[worker.scope].at = "fresh" /\ exec[worker.scope].run = run)
DirtiedIsStale ==
  worker.at = "dirtied" =>
    /\ \A k \in tokens : k.kind = "auto" => StaleRun(k.run)
    /\ \A t \in Task : work[t].at \in {"claimed", "prepared"} /\ work[t].token.kind = "auto"
                         => StaleRun(work[t].token.run)
    /\ shared.ticket.at = "completed" /\ active # NoGeneration => StaleRun(shared.ticket.run)

Inv ==
  /\ AutoTypeOK /\ Linked /\ SlotHeld /\ LastRun /\ TokensBound /\ Current
  /\ PermitsBelong /\ TicketIsLast /\ DirtiedIsStale
-----------------------------------------------------------------------------
(* Types.                                                                  *)

LEMMA NoTokenTyped == NoToken \in Token /\ NoToken.scope \in Scope /\ NoPermit \in Permit
<1>1. Scope # {}
  <2>1. PICK v \in Rev, g \in Target : TRUE
    OBVIOUS
  <2>2. [rev |-> v, target |-> g] \in Scope
    BY DEF Scope
  <2> QED
    BY <2>2
<1>2. (CHOOSE s \in Scope : TRUE) \in Scope
  BY <1>1
<1> HIDE DEF Scope
<1> QED
  BY <1>2 DEF NoToken, Token, NoPermit, Permit

LEMMA Initially == AutoInit => Inv
<1> SUFFICES ASSUME AutoInit PROVE Inv OBVIOUS
<1>1. AutoTypeOK
  BY NoTokenTyped DEF AutoInit, AutoTypeOK, ExecType, ResultType,
         WorkType, SharedType, TicketType, GateType, WorkerType, NoExecution, NoResult, NoWork, NoTicket
<1>2. \A t \in Task : work[t].at = "idle"
  BY DEF AutoInit, NoWork
<1>3. \A r \in 1..MaxRuns : ~result[r].kept
  BY DEF AutoInit, NoResult
<1>4. \A s \in Scope : exec[s].at = "none"
  BY DEF AutoInit, NoExecution
<1>5. shared.ticket.at = "idle" /\ worker.at = "off" /\ tokens = {} /\ active = NoGeneration /\ gate.for = "nobody"
  BY DEF AutoInit, NoTicket
<1> QED
  BY <1>1, <1>2, <1>3, <1>4, <1>5
     DEF Inv, Linked, SlotHeld, LastRun, TokensBound, Current, FreshIsCurrent, PermitsBelong,
         TicketIsLast, DirtiedIsStale, AtRun, AtCompare, Pending

\* The steps of the execution state of a scope keep its type.
\* A ticket is given up; the generation may be stopped with it.
LEMMA NoTicketTyped ==
  ASSUME NEW e \in SharedType, NEW live \in BOOLEAN
  PROVE  /\ [e EXCEPT !.ticket = NoTicket] \in SharedType
         /\ [e EXCEPT !.ticket = NoTicket, !.live = live] \in SharedType
         /\ [e EXCEPT !.live = live, !.ticket = NoTicket] \in SharedType
<1>1. NoTicket \in TicketType
  BY DEF NoTicket, TicketType
<1> QED
  BY <1>1 DEF SharedType

LEMMA EndedTyped ==
  ASSUME exec \in ExecType, NEW s, NEW epoch PROVE Ended(s, epoch) \in ExecType
BY DEF ExecType, Ended

LEMMA BegunTyped ==
  ASSUME NEW e \in ExecType, NEW s \in Scope, NEW run \in Nat
  PROVE  Begun(e, s, run) \in ExecType /\ Begun(e, s, run)[s].epoch \in Nat
BY DEF ExecType, Begun, Unfinished

LEMMA ExpiredTyped ==
  ASSUME NEW e \in ExecType, NEW revisions PROVE Expired(e, revisions) \in ExecType
BY DEF ExecType, Expired

LEMMA TerminalizeTyped ==
  ASSUME AutoTypeOK, Linked, active # NoGeneration, Terminalize
  PROVE  exec' \in ExecType /\ shared' \in SharedType /\ commands' \in Seq(Nat)
<1>1. exec' \in ExecType
  BY EndedTyped DEF Terminalize, AutoTypeOK
<1>2. commands' \in Seq(Nat)
  BY DEF Terminalize, AutoTypeOK, SharedType, TicketType
<1>3. shared' \in SharedType
  <2>1. shared \in SharedType
    BY DEF AutoTypeOK
  <2>2. (shared.live /\ Terminates(active.scope, shared.ticket.epoch) /\ worker.at # "off") \in BOOLEAN
    OBVIOUS
  <2>3. shared' = [shared EXCEPT !.ticket = NoTicket,
                     !.live = shared.live /\ Terminates(active.scope, shared.ticket.epoch)
                                          /\ worker.at # "off"]
    BY <2>1 DEF Terminalize, SharedType
  <2> QED
    BY <2>1, <2>2, <2>3, NoTicketTyped
<1> QED
  BY <1>1, <1>2, <1>3

LEMMA DeactivatesTyped ==
  ASSUME AutoTypeOK, Deactivates
  PROVE  exec' \in ExecType /\ shared' \in SharedType /\ commands' \in Seq(Nat)
         /\ active' = NoGeneration
<1>1. exec' \in ExecType
  BY EndedTyped DEF Deactivates, AutoTypeOK
<1>2. commands' \in Seq(Nat) /\ active' = NoGeneration
  BY DEF Deactivates, AutoTypeOK
<1>3. shared' \in SharedType
  BY NoTicketTyped DEF Deactivates, AutoTypeOK
<1> QED
  BY <1>1, <1>2, <1>3

\* What a task becomes is of its type.
LEMMA BecomesTyped ==
  ASSUME work \in WorkType, NEW t \in Task
  PROVE  /\ \A at \in {"comparing", "applying", "writing", "written"} :
              [work EXCEPT ![t].at = at] \in WorkType
         /\ \A k \in Token :
              /\ [work EXCEPT ![t] = [at |-> "burnt", token |-> k, run |-> 0]] \in WorkType
              /\ [work EXCEPT ![t] = [at |-> "prepared", token |-> k, run |-> 0]] \in WorkType
              /\ [work EXCEPT ![t] = [at |-> "claimed", run |-> 0, token |-> k]] \in WorkType
         /\ [work EXCEPT ![t] = NoWork] \in WorkType
         /\ \A n \in Nat : [work EXCEPT ![t].at = "started", ![t].run = n] \in WorkType
         /\ \A n \in Nat :
              [work EXCEPT ![t].at = "comparing", ![t].token.permit.epoch = n] \in WorkType
<1>1. NoWork \in [at : {"idle"}, token : Token, run : Nat]
  BY NoTokenTyped DEF NoWork
<1>2. ASSUME NEW n \in Nat
      PROVE  [work EXCEPT ![t].at = "comparing", ![t].token.permit.epoch = n] \in WorkType
  <2>1. work[t].token \in Token
    BY DEF WorkType
  <2>2. [work[t].token EXCEPT !.permit.epoch = n] \in Token
    BY <2>1 DEF Token, Permit
  <2>3. work[t] \in [at : {"idle", "burnt", "started", "comparing", "claimed", "prepared", "applying",
                           "writing", "written"}, token : Token, run : Nat]
    BY DEF WorkType
  <2>4. [[work[t] EXCEPT !.at = "comparing"] EXCEPT !.token = [work[t].token EXCEPT !.permit.epoch = n]]
          \in [at : {"comparing"}, token : Token, run : Nat]
    BY <2>2, <2>3
  <2>5. [work EXCEPT ![t].at = "comparing", ![t].token.permit.epoch = n]
          = [work EXCEPT ![t] = [[work[t] EXCEPT !.at = "comparing"] EXCEPT
                                   !.token = [work[t].token EXCEPT !.permit.epoch = n]]]
    BY <2>1, <2>3 DEF WorkType
  <2> QED
    BY <2>4, <2>5 DEF WorkType
<1>3. ASSUME NEW k \in Token
      PROVE  /\ [work EXCEPT ![t] = [at |-> "burnt", token |-> k, run |-> 0]] \in WorkType
             /\ [work EXCEPT ![t] = [at |-> "prepared", token |-> k, run |-> 0]] \in WorkType
             /\ [work EXCEPT ![t] = [at |-> "claimed", run |-> 0, token |-> k]] \in WorkType
  BY DEF WorkType
<1>4. ASSUME NEW at \in {"comparing", "applying", "writing", "written"}
      PROVE  [work EXCEPT ![t].at = at] \in WorkType
  BY DEF WorkType
<1>5. ASSUME NEW n \in Nat PROVE [work EXCEPT ![t].at = "started", ![t].run = n] \in WorkType
  BY DEF WorkType
<1>6. [work EXCEPT ![t] = NoWork] \in WorkType
  BY <1>1 DEF WorkType
<1> QED
  BY <1>2, <1>3, <1>4, <1>5, <1>6

LEMMA UsesTyped ==
  ASSUME left \in [Chance -> Nat], NEW what \in Chance, Uses(what) PROVE left' \in [Chance -> Nat]
BY DEF Uses

LEMMA PublishTyped ==
  ASSUME exec \in ExecType, result \in ResultType, work \in WorkType, NEW t \in Task, Publish(t)
  PROVE  exec' \in ExecType /\ result' \in ResultType
<1>1. exec' \in ExecType
  BY DEF Publish, ExecType
<1>2. result' \in ResultType
  BY DEF Publish, ResultType
<1> QED
  BY <1>1, <1>2

LEMMA EndsRunTyped ==
  ASSUME work \in WorkType, slot \in Task \cup {NoTask}, NEW t \in Task, EndsRun(t)
  PROVE  work' \in WorkType /\ slot' \in Task \cup {NoTask}
BY BecomesTyped DEF EndsRun

LEMMA IssuesTyped ==
  ASSUME tokens \subseteq Token, NEW k \in Token, Issues(k) PROVE tokens' \subseteq Token
BY DEF Issues

\* The ticket goes on, or is taken up.
LEMMA TicketTyped ==
  ASSUME NEW e \in SharedType
  PROVE  /\ [e EXCEPT !.ticket.at = "permitted"] \in SharedType
         /\ [e EXCEPT !.ticket.at = "running"] \in SharedType
         /\ [e EXCEPT !.ticket.at = "claimed"] \in SharedType
         /\ [e EXCEPT !.ticket.at = "authorized"] \in SharedType
         /\ \A n \in Nat : [e EXCEPT !.ticket = [e.ticket EXCEPT !.at = "completed", !.run = n]] \in SharedType
         /\ \A id, epoch \in Nat :
              [e EXCEPT !.latest = id,
                        !.ticket = [at |-> "awaiting", id |-> id, epoch |-> epoch, run |-> 0]] \in SharedType
BY DEF SharedType, TicketType, Pending

\* A permit is of a ticket.
LEMMA PermitTyped ==
  ASSUME active \in Generation, shared \in SharedType
  PROVE  TicketPermit \in Permit /\ active.scope \in Scope /\ active.gen \in Nat
BY DEF TicketPermit, Permit, Generation, SharedType, TicketType

LEMMA TokenTyped ==
  ASSUME NEW scope \in Scope, NEW kind \in {"compare", "review", "interactive", "auto"}, NEW run \in Nat,
         NEW permit \in Permit, left \in [Chance -> Nat]
  PROVE  /\ [kind |-> kind, scope |-> scope, run |-> run, permit |-> permit, saves |-> left["save"]] \in Token
         /\ [NoToken EXCEPT !.kind = kind, !.scope = scope] \in Token
         /\ [NoToken EXCEPT !.kind = kind, !.scope = scope, !.permit = permit] \in Token
BY NoTokenTyped DEF Token, Chance

LEMMA SpawnsTyped ==
  ASSUME NEW g \in Generation, Spawns(g)
  PROVE  active' \in Generation /\ shared' \in SharedType /\ worker' \in WorkerType /\ commands' \in Seq(Nat)
BY DEF Spawns, Generation, SharedType, TicketType, WorkerType, NoTicket

LEMMA TypeStep ==
  ASSUME AutoTypeOK, Linked, TokensBound, [AutoNext]_autoVars PROVE AutoTypeOK'
<1> USE DEF jobVars, evidenceVars, scanVars, workerVars, ObserverKeeps, WorkerKeeps
<1>1. ASSUME NEW t \in Task, NEW k \in tokens, TakeCompare(t, k) \/ TakeApply(t, k) PROVE AutoTypeOK'
  <2>1. k \in Token
    BY DEF AutoTypeOK
  <2>2. tokens' \subseteq Token
    BY <1>1 DEF TakeCompare, TakeApply, AutoTypeOK
  <2>3. work' \in WorkType
    <3>1. work' = [work EXCEPT ![t] = [at |-> "burnt", token |-> k, run |-> 0]]
            \/ work' = [work EXCEPT ![t] = [at |-> "prepared", token |-> k, run |-> 0]]
      BY <1>1 DEF TakeCompare, TakeApply
    <3>2. work \in WorkType
      BY DEF AutoTypeOK
    <3>3. /\ [work EXCEPT ![t] = [at |-> "burnt", token |-> k, run |-> 0]] \in WorkType
          /\ [work EXCEPT ![t] = [at |-> "prepared", token |-> k, run |-> 0]] \in WorkType
      BY <2>1, <3>2, BecomesTyped
    <3> QED
      BY <3>1, <3>3
  <2> QED
    BY <1>1, <2>2, <2>3 DEF TakeCompare, TakeApply, AutoTypeOK
<1>2. ASSUME NEW t \in Task, StartCompare(t) PROVE AutoTypeOK'
  <2>1. tokens' \subseteq Token /\ slot' \in Task /\ runs' \in 0..MaxRuns
    BY <1>2 DEF StartCompare, AutoTypeOK, Revoked
  <2>2. work' \in WorkType
    <3>1. runs + 1 \in Nat /\ work' = [work EXCEPT ![t].at = "started", ![t].run = runs + 1]
      BY <1>2 DEF StartCompare, AutoTypeOK
    <3> QED
      BY <3>1, BecomesTyped DEF AutoTypeOK
  <2>3. left' \in [Chance -> Nat]
    BY <1>2, UsesTyped DEF StartCompare, AutoTypeOK, Chance
  <2> QED
    BY <1>2, <2>1, <2>2, <2>3 DEF StartCompare, AutoTypeOK
<1>3. ASSUME NEW t \in Task, LaunchManual(t), Launch(t) PROVE AutoTypeOK'
  <2>1. work[t].token \in Token /\ work[t].token.scope \in Scope /\ work[t].run \in Nat
    BY DEF AutoTypeOK, WorkType, Token
  <2>2. exec' \in ExecType /\ exec'[work[t].token.scope].epoch \in Nat
    BY <1>3, <2>1, BegunTyped DEF LaunchManual, AutoTypeOK
  <2>3. work' \in WorkType
    BY <1>3, <2>2, BecomesTyped DEF LaunchManual, AutoTypeOK
  <2>4. result' \in ResultType
    BY <1>3, <2>1, <2>2 DEF Launch, AutoTypeOK, ResultType, Scope
  <2> QED
    BY <1>3, <2>2, <2>3, <2>4 DEF Launch, LaunchManual, AutoTypeOK
<1>4. ASSUME NEW t \in Task, LaunchPermitted(t), Launch(t) PROVE AutoTypeOK'
  <2>1. work[t].token \in Token /\ work[t].token.scope \in Scope /\ work[t].run \in Nat
    BY DEF AutoTypeOK, WorkType, Token
  <2>2. exec' \in ExecType
    <3>1. exec \in ExecType
      BY DEF AutoTypeOK
    <3>2. exec' = [exec EXCEPT ![active.scope].at = "comparing", ![active.scope].run = work[t].run]
      BY <1>4 DEF LaunchPermitted
    <3> QED
      BY <2>1, <3>1, <3>2 DEF ExecType, Unfinished
  <2>3. work' \in WorkType
    BY <1>4, BecomesTyped DEF LaunchPermitted, Becomes, AutoTypeOK
  <2>4. result' \in ResultType
    BY <1>4, <2>1, <2>2 DEF Launch, AutoTypeOK, ResultType, ExecType, Scope
  <2>5. shared' \in SharedType
    BY <1>4, TicketTyped DEF LaunchPermitted, AutoTypeOK, Pending
  <2> QED
    BY <1>4, <2>2, <2>3, <2>4, <2>5 DEF Launch, LaunchPermitted, AutoTypeOK
<1>5. ASSUME NEW t \in Task, PublishManual(t) PROVE AutoTypeOK'
  BY <1>5, PublishTyped, EndsRunTyped DEF PublishManual, AutoTypeOK
<1>6. ASSUME NEW t \in Task, PublishPermitted(t) PROVE AutoTypeOK'
  <2>1. exec' \in ExecType /\ result' \in ResultType /\ work' \in WorkType /\ slot' \in Task \cup {NoTask}
    BY <1>6, PublishTyped, EndsRunTyped DEF PublishPermitted, AutoTypeOK
  <2>2. work[t].run \in Nat /\ shared.ticket.id \in Nat
    BY DEF AutoTypeOK, WorkType, SharedType, TicketType
  <2>3. shared' \in SharedType
    <3>1. CASE active.auto
      <4>1. shared' = [shared EXCEPT !.ticket = [shared.ticket EXCEPT !.at = "completed", !.run = work[t].run]]
        BY <1>6, <3>1 DEF PublishPermitted, AutoTypeOK, SharedType
      <4> QED
        BY <2>2, <4>1, TicketTyped DEF AutoTypeOK
    <3>2. CASE ~active.auto
      BY <1>6, <3>2, NoTicketTyped DEF PublishPermitted, AutoTypeOK, SharedType
    <3> QED
      BY <3>1, <3>2
  <2>4. commands' \in Seq(Nat)
    BY <1>6, <2>2 DEF PublishPermitted, AutoTypeOK
  <2> QED
    BY <1>6, <2>1, <2>3, <2>4 DEF PublishPermitted, AutoTypeOK
<1>7. ASSUME NEW t \in Task, CompareFails(t) PROVE AutoTypeOK'
  <2>1. work' \in WorkType /\ slot' \in Task \cup {NoTask}
    BY <1>7, EndsRunTyped DEF CompareFails, AutoTypeOK
  <2>2. CASE UNCHANGED <<shared, commands>> /\ (UNCHANGED exec \/ \E s, e : exec' = Ended(s, e))
    BY <1>7, <2>1, <2>2, EndedTyped DEF CompareFails, AutoTypeOK
  <2>3. CASE active # NoGeneration /\ Terminalize
    BY <1>7, <2>1, <2>3, TerminalizeTyped DEF CompareFails, AutoTypeOK
  <2> QED
    BY <1>7, <2>2, <2>3 DEF CompareFails, Abandons, OwnsPermit, Binds
<1>8. ASSUME NEW t \in Task, Claim(t) PROVE AutoTypeOK'
  <2>1. active \in Generation /\ shared.ticket.run \in Nat
    BY <1>8 DEF Claim, AutoTypeOK, SharedType, TicketType
  <2>2. work' \in WorkType
    BY <1>8, <2>1, BecomesTyped, TokenTyped, PermitTyped DEF Claim, AutoTypeOK
  <2>3. shared' \in SharedType
    BY <1>8, TicketTyped DEF Claim, AutoTypeOK
  <2> QED
    BY <1>8, <2>2, <2>3 DEF Claim, AutoTypeOK
<1>9. ASSUME NEW t \in Task, Authorize(t) PROVE AutoTypeOK'
  <2>1. work[t].token \in Token
    BY DEF AutoTypeOK, WorkType
  <2>2. work' \in WorkType
    BY <1>9, BecomesTyped DEF Authorize, AutoTypeOK
  <2>3. tokens' \subseteq Token
    BY <1>9, <2>1, IssuesTyped DEF Authorize, AutoTypeOK
  <2>4. shared' \in SharedType
    <3>1. shared' = [shared EXCEPT !.ticket.at = "authorized"] \/ shared' = [shared EXCEPT !.ticket = NoTicket]
      BY <1>9 DEF Authorize
    <3> QED
      BY <3>1, TicketTyped, NoTicketTyped DEF AutoTypeOK
  <2> QED
    BY <1>9, <2>2, <2>3, <2>4 DEF Authorize, AutoTypeOK
<1>10. ASSUME NEW t \in Task, ApplyRefused(t) PROVE AutoTypeOK'
  BY <1>10, BecomesTyped DEF ApplyRefused, AutoTypeOK
<1>11. ASSUME NEW t \in Task, Reserve(t) PROVE AutoTypeOK'
  <2>1. work' \in WorkType /\ slot' \in Task \cup {NoTask}
    BY <1>11, BecomesTyped DEF Reserve, ReserveInteractive, ReserveUnattended, Reserves, Becomes, AutoTypeOK
  <2>2. shared' \in SharedType
    BY <1>11, NoTicketTyped DEF Reserve, ReserveInteractive, ReserveUnattended, AutoTypeOK
  <2> QED
    BY <1>11, <2>1, <2>2 DEF Reserve, AutoTypeOK
<1>12. ASSUME NEW t \in Task, StartWrites(t) PROVE AutoTypeOK'
  <2>1. work' \in WorkType
    BY <1>12, BecomesTyped DEF StartWrites, Becomes, AutoTypeOK
  <2>2. wrote' \in [Rev -> Nat]
    <3>1. work[t].token.scope.rev \in Rev
      BY DEF AutoTypeOK, WorkType, Token, Scope
    <3> QED
      BY <1>12, <3>1 DEF StartWrites, AutoTypeOK
  <2> QED
    BY <1>12, <2>1, <2>2 DEF StartWrites, AutoTypeOK
<1>13. ASSUME NEW t \in Task, ExpireWritten(t) PROVE AutoTypeOK'
  BY <1>13, BecomesTyped, ExpiredTyped DEF ExpireWritten, Becomes, AutoTypeOK
<1>14. ASSUME NEW t \in Task, ApplyEnds(t) PROVE AutoTypeOK'
  BY <1>14, BecomesTyped DEF ApplyEnds, EndsRun, AutoTypeOK
<1>15. ASSUME NEW k \in tokens, Approve(k) PROVE AutoTypeOK'
  BY <1>15 DEF Approve, AutoTypeOK, Token
<1>16. ASSUME NEW k \in tokens, Expires(k) PROVE AutoTypeOK'
  BY <1>16, UsesTyped DEF Expires, Chance, AutoTypeOK
<1>17. ASSUME NEW r \in 1..MaxRuns, ReviewApply(r) PROVE AutoTypeOK'
  <2>1. result[r].scope \in Scope
    BY DEF AutoTypeOK, ResultType
  <2>2. tokens' \subseteq Token
    <3> DEFINE k == [kind |-> "review", scope |-> result[r].scope, run |-> r,
                     permit |-> NoPermit, saves |-> left["save"]]
    <3>1. k \in Token
      <4>1. r \in Nat /\ NoPermit \in Permit /\ left \in [Chance -> Nat]
        BY NoTokenTyped DEF AutoTypeOK
      <4> QED
        BY <2>1, <4>1, TokenTyped
    <3>2. Issues(k)
      BY <1>17 DEF ReviewApply
    <3> HIDE DEF k
    <3> QED
      BY <3>1, <3>2, IssuesTyped DEF AutoTypeOK
  <2> QED
    BY <1>17, <2>2 DEF ReviewApply, AutoTypeOK
<1>18. ASSUME NEW r \in 1..MaxRuns, Forget(r) PROVE AutoTypeOK'
  <2>1. exec' \in ExecType
    BY <1>18 DEF Forget, NoExecution, AutoTypeOK, ExecType
  <2>2. result' \in ResultType
    BY <1>18 DEF Forget, AutoTypeOK, ResultType
  <2>3. left' \in [Chance -> Nat]
    BY <1>18, UsesTyped DEF Forget, AutoTypeOK, Chance
  <2> QED
    BY <1>18, <2>1, <2>2, <2>3 DEF Forget, AutoTypeOK
<1>19. ASSUME NEW g \in Target, ReviewCompare(g) PROVE AutoTypeOK'
  <2>1. revision \in Rev
    BY <1>19 DEF ReviewCompare, AutoTypeOK
  <2>2. [rev |-> revision, target |-> g] \in Scope
    BY <2>1 DEF Scope
  <2>3. tokens' \subseteq Token
    BY <1>19, <2>2, TokenTyped, IssuesTyped, NoTokenTyped DEF ReviewCompare, AutoTypeOK
  <2> QED
    BY <1>19, <2>3 DEF ReviewCompare, AutoTypeOK
<1>20. ASSUME NEW g \in Target, StartBegins(g) PROVE AutoTypeOK'
  <2> DEFINE next == [gen |-> shared.gen + 1, scope |-> [rev |-> revision, target |-> g],
                      auto |-> revision \in Unattended]
  <2>1. revision \in Rev /\ shared.gen \in Nat
    BY <1>20 DEF StartBegins, AutoTypeOK, SharedType
  <2>2. next \in Generation
    BY <2>1 DEF Generation, Scope
  <2>3. left' \in [Chance -> Nat]
    BY <1>20, UsesTyped DEF StartBegins, AutoTypeOK, Chance
  <2> HIDE DEF next
  <2>4. CASE Spawns(next) /\ UNCHANGED <<exec, gate>>
    BY <1>20, <2>2, <2>3, <2>4, SpawnsTyped DEF StartBegins, AutoTypeOK
  <2>5. CASE Deactivates /\ gate' = [for |-> "start", next |-> next] /\ UNCHANGED worker
    BY <1>20, <2>2, <2>3, <2>5, DeactivatesTyped DEF StartBegins, AutoTypeOK, GateType
  <2> QED
    BY <1>20, <2>4, <2>5 DEF StartBegins, next
<1>21. ASSUME ReviewTrigger PROVE AutoTypeOK'
  <2>1. active \in Generation
    BY <1>21 DEF ReviewTrigger, AutoTypeOK
  <2>2. tokens' \subseteq Token
    BY <1>21, <2>1, TokenTyped, IssuesTyped, PermitTyped DEF ReviewTrigger, AutoTypeOK
  <2>3. shared' \in SharedType
    BY <1>21, TicketTyped DEF ReviewTrigger, AutoTypeOK, Pending
  <2> QED
    BY <1>21, <2>2, <2>3 DEF ReviewTrigger, AutoTypeOK
<1>22. ASSUME ReviewTriggerFails PROVE AutoTypeOK'
  BY <1>22, TerminalizeTyped DEF ReviewTriggerFails, AutoTypeOK
<1>23. ASSUME Decline PROVE AutoTypeOK'
  BY <1>23, TerminalizeTyped DEF Decline, AutoTypeOK
<1>24. ASSUME StopBegins PROVE AutoTypeOK'
  BY <1>24, DeactivatesTyped DEF StopBegins, AutoTypeOK, GateType
<1>25. ASSUME Joined PROVE AutoTypeOK'
  <2>1. gate' \in GateType
    BY <1>25 DEF Joined, GateType
  <2>2. CASE gate.for = "start"
    BY <1>25, <2>1, <2>2, SpawnsTyped DEF Joined, AutoTypeOK, Linked
  <2>3. CASE gate.for # "start"
    BY <1>25, <2>1, <2>3 DEF Joined, AutoTypeOK
  <2> QED
    BY <2>2, <2>3
<1>26. ASSUME Observe PROVE AutoTypeOK'
  <2>1. left' \in [Chance -> Nat]
    BY <1>26, UsesTyped DEF Observe, AutoTypeOK, Chance
  <2>2. worker' \in WorkerType
    <3>1. worker' = [worker EXCEPT !.at = "off"] \/ worker' = [worker EXCEPT !.at = "observed", !.id = worker.id + 1]
      BY <1>26 DEF Observe, AutoTypeOK, WorkerType
    <3>2. worker.id + 1 \in Nat
      BY DEF AutoTypeOK, WorkerType
    <3> QED
      BY <3>1, <3>2 DEF AutoTypeOK, WorkerType
  <2>3. exec' \in ExecType
    BY <1>26, EndedTyped DEF Observe, AutoTypeOK
  <2>4. shared' \in SharedType
    BY <1>26, NoTicketTyped DEF Observe, AutoTypeOK
  <2> QED
    BY <1>26, <2>1, <2>2, <2>3, <2>4 DEF Observe, AutoTypeOK
<1>27. ASSUME Dirty PROVE AutoTypeOK'
  <2>1. worker.scope \in Scope
    BY DEF AutoTypeOK, WorkerType
  <2>2. exec' \in ExecType /\ exec'[worker.scope].epoch \in Nat
    BY <1>27, <2>1, BegunTyped DEF Dirty, AutoTypeOK
  <2>3. worker' \in WorkerType
    BY <1>27, <2>2 DEF Dirty, AutoTypeOK, WorkerType
  <2> QED
    BY <1>27, <2>2, <2>3 DEF Dirty, AutoTypeOK
<1>28. ASSUME Trigger PROVE AutoTypeOK'
  <2>1. tokens' \subseteq Token
    BY <1>28 DEF Trigger, AutoTypeOK, Revoked
  <2>2. worker' \in WorkerType
    BY <1>28 DEF Trigger, AutoTypeOK, WorkerType
  <2>3. exec' \in ExecType
    BY <1>28, EndedTyped DEF Trigger, AutoTypeOK
  <2>4. worker.id \in Nat /\ worker.epoch \in Nat
    BY DEF AutoTypeOK, WorkerType
  <2>5. shared' \in SharedType
    <3>1. CASE revision = worker.scope.rev /\ shared.live
      <4>1. shared' = [shared EXCEPT !.latest = worker.id,
                         !.ticket = [at |-> "awaiting", id |-> worker.id, epoch |-> worker.epoch, run |-> 0]]
        BY <1>28, <3>1 DEF Trigger
      <4> QED
        BY <2>4, <4>1, TicketTyped DEF AutoTypeOK
    <3>2. CASE ~(revision = worker.scope.rev /\ shared.live)
      <4>1. shared' = shared \/ shared' = [shared EXCEPT !.live = FALSE, !.ticket = NoTicket]
        BY <1>28, <3>2 DEF Trigger
      <4> QED
        BY <4>1, NoTicketTyped DEF AutoTypeOK
    <3> QED
      BY <3>1, <3>2
  <2> QED
    BY <1>28, <2>1, <2>2, <2>3, <2>5 DEF Trigger, AutoTypeOK
<1>29. ASSUME Hear PROVE AutoTypeOK'
  <2>1. commands' \in Seq(Nat)
    BY <1>29 DEF Hear, AutoTypeOK
  <2>2. worker' \in WorkerType
    BY <1>29 DEF Hear, AutoTypeOK, WorkerType
  <2> QED
    BY <1>29, <2>1, <2>2 DEF Hear, AutoTypeOK
<1>30. ASSUME NEW new \in Rev \cup {Deleted}, SaveJob(new) PROVE AutoTypeOK'
  BY <1>30, UsesTyped DEF SaveJob, Chance, AutoTypeOK
<1>31. ASSUME StopOnSave PROVE AutoTypeOK'
  BY <1>31, DeactivatesTyped DEF StopOnSave, AutoTypeOK, GateType
<1>32. ASSUME ExpireOnSave PROVE AutoTypeOK'
  BY <1>32, ExpiredTyped DEF ExpireOnSave, AutoTypeOK
<1>33. ASSUME NEW new \in Rev, EditByHand(new) PROVE AutoTypeOK'
  BY <1>33, UsesTyped DEF EditByHand, Chance, AutoTypeOK
<1>34. ASSUME UNCHANGED autoVars PROVE AutoTypeOK'
  BY <1>34 DEF autoVars, AutoTypeOK
<1> QED
  BY <1>1, <1>2, <1>3, <1>4, <1>5, <1>6, <1>7, <1>8, <1>9, <1>10, <1>11, <1>12, <1>13, <1>14,
     <1>15, <1>16, <1>17, <1>18, <1>19, <1>20, <1>21, <1>22, <1>23, <1>24, <1>25, <1>26, <1>27,
     <1>28, <1>29, <1>30, <1>31, <1>32, <1>33, <1>34 DEF AutoNext, Launch

-----------------------------------------------------------------------------
(* The generation at work.                                                 *)

LEMMA LinkedStep ==
  ASSUME AutoTypeOK, Linked, [AutoNext]_autoVars PROVE Linked'
<1> USE DEF jobVars, evidenceVars, scanVars, workerVars, ObserverKeeps, WorkerKeeps
<1>1. CASE UNCHANGED <<active, gate>> /\ shared'.gen = shared.gen /\ worker'.scope = worker.scope
  BY <1>1 DEF Linked
<1>2. ASSUME Deactivates, gate' \in GateType, UNCHANGED worker,
             gate'.for = "start" => gate'.next \in Generation /\ gate'.next.gen = shared.gen + 1
      PROVE  Linked'
  BY <1>2 DEF Deactivates, Linked, AutoTypeOK, SharedType
<1>3. ASSUME NEW g \in Target, StartBegins(g) PROVE Linked'
  <2> DEFINE next == [gen |-> shared.gen + 1, scope |-> [rev |-> revision, target |-> g],
                      auto |-> revision \in Unattended]
  <2>1. next \in Generation /\ next.gen = shared.gen + 1 /\ next.gen # 0
    BY <1>3 DEF StartBegins, AutoTypeOK, SharedType, Generation, Scope
  <2> HIDE DEF next
  <2>2. CASE Spawns(next) /\ UNCHANGED <<exec, gate>>
    BY <1>3, <2>1, <2>2 DEF StartBegins, GateFree, Spawns, Linked
  <2>3. CASE Deactivates /\ gate' = [for |-> "start", next |-> next] /\ UNCHANGED worker
    BY <1>2, <2>1, <2>3 DEF GateType
  <2> QED
    BY <1>3, <2>2, <2>3 DEF StartBegins, next
<1>4. ASSUME Joined PROVE Linked'
  <2>1. CASE gate.for = "start"
    <3>1. gate.next \in Generation /\ gate.next.gen # 0
      BY <2>1 DEF Linked, AutoTypeOK, SharedType
    <3> QED
      BY <1>4, <2>1, <3>1 DEF Joined, Spawns, Linked
  <2>2. CASE gate.for # "start"
    BY <1>4, <2>2 DEF Joined, Linked
  <2> QED
    BY <2>1, <2>2
<1>5. ASSUME StopBegins PROVE Linked'
  BY <1>2, <1>5 DEF StopBegins, GateType
<1>6. ASSUME StopOnSave PROVE Linked'
  BY <1>1, <1>2, <1>6 DEF StopOnSave, GateType
<1>7. ASSUME Terminalize, UNCHANGED <<active, gate, worker>> PROVE Linked'
  BY <1>7 DEF Terminalize, Linked, AutoTypeOK, SharedType
<1>8. ASSUME ReviewTriggerFails \/ Decline PROVE Linked'
  BY <1>7, <1>8 DEF ReviewTriggerFails, Decline
<1>9. ASSUME NEW t \in Task, CompareFails(t) PROVE Linked'
  BY <1>1, <1>7, <1>9 DEF CompareFails, Abandons
<1>10. ASSUME NEW t \in Task, Launch(t) \/ PublishPermitted(t) \/ Claim(t) \/ Authorize(t) \/ Reserve(t)
       PROVE  Linked'
  <2>1. UNCHANGED <<active, gate, worker>>
    BY <1>10 DEF Launch, PublishPermitted, Claim, Authorize, Reserve
  <2>2. shared'.gen = shared.gen
    BY <1>10 DEF Launch, LaunchManual, LaunchPermitted, PublishPermitted, Claim, Authorize, Reserve,
         ReserveInteractive, ReserveUnattended, AutoTypeOK, SharedType
  <2> QED
    BY <1>1, <2>1, <2>2
<1>11. ASSUME Observe \/ Dirty \/ Trigger \/ Hear \/ ReviewTrigger PROVE Linked'
  <2>1. UNCHANGED <<active, gate>>
    BY <1>11 DEF Observe, Dirty, Trigger, Hear, ReviewTrigger
  <2>2. shared'.gen = shared.gen
    BY <1>11 DEF Observe, Dirty, Trigger, Hear, ReviewTrigger, AutoTypeOK, SharedType
  <2>3. worker'.scope = worker.scope
    BY <1>11 DEF Observe, Dirty, Trigger, Hear, ReviewTrigger, AutoTypeOK, WorkerType
  <2> QED
    BY <1>1, <2>1, <2>2, <2>3
<1>12. ASSUME NEW t \in Task,
              \/ StartCompare(t) \/ PublishManual(t) \/ ApplyRefused(t) \/ StartWrites(t)
              \/ ExpireWritten(t) \/ ApplyEnds(t)
       PROVE  Linked'
  BY <1>1, <1>12 DEF StartCompare, PublishManual, ApplyRefused, StartWrites, ExpireWritten, ApplyEnds
<1>13. ASSUME NEW k \in tokens,
              Approve(k) \/ Expires(k) \/ \E t \in Task : TakeCompare(t, k) \/ TakeApply(t, k)
       PROVE  Linked'
  BY <1>1, <1>13 DEF Approve, Expires, TakeCompare, TakeApply
<1>14. ASSUME \/ \E r \in 1..MaxRuns : ReviewApply(r) \/ Forget(r)
              \/ \E g \in Target : ReviewCompare(g)
              \/ \E new \in Rev \cup {Deleted} : SaveJob(new)
              \/ \E new \in Rev : EditByHand(new)
              \/ ExpireOnSave \/ UNCHANGED autoVars
       PROVE  Linked'
  BY <1>1, <1>14 DEF ReviewApply, Forget, ReviewCompare, SaveJob, EditByHand, ExpireOnSave, autoVars
<1> QED
  BY <1>3, <1>4, <1>5, <1>6, <1>8, <1>9, <1>10, <1>11, <1>12, <1>13, <1>14 DEF AutoNext

-----------------------------------------------------------------------------
(* One task at a time is at a run.                                         *)

\* The steps of the controller, its worker and the registry touch no run.
DeskKeeps == UNCHANGED <<result, runs, slot, work, wrote>>

DeskStep(t) ==
  \/ \E k \in tokens : TakeCompare(t, k) \/ TakeApply(t, k)
  \/ StartCompare(t) \/ Launch(t)
  \/ PublishManual(t) \/ PublishPermitted(t) \/ CompareFails(t)
  \/ Claim(t) \/ Authorize(t) \/ ApplyRefused(t) \/ Reserve(t)
  \/ StartWrites(t) \/ ExpireWritten(t) \/ ApplyEnds(t)

LEMMA DeskSteps ==
  ASSUME [AutoNext]_autoVars
  PROVE  DeskKeeps \/ (\E t \in Task : DeskStep(t)) \/ \E r \in 1..MaxRuns : Forget(r)
<1> USE DEF jobVars, evidenceVars, scanVars, workerVars, ObserverKeeps, WorkerKeeps, DeskKeeps
<1>1. ASSUME \/ \E k \in tokens : Approve(k) \/ Expires(k)
             \/ \E r \in 1..MaxRuns : ReviewApply(r)
             \/ \E g \in Target : ReviewCompare(g) \/ StartBegins(g)
             \/ ReviewTrigger \/ ReviewTriggerFails \/ Decline \/ StopBegins \/ Joined
      PROVE  DeskKeeps
  BY <1>1 DEF Approve, Expires, ReviewApply, ReviewCompare, StartBegins, ReviewTrigger,
       ReviewTriggerFails, Decline, StopBegins, Joined
<1>2. ASSUME \/ Observe \/ Dirty \/ Trigger \/ Hear
             \/ \E new \in Rev \cup {Deleted} : SaveJob(new)
             \/ StopOnSave \/ ExpireOnSave
             \/ \E new \in Rev : EditByHand(new)
             \/ UNCHANGED autoVars
      PROVE  DeskKeeps
  BY <1>2 DEF Observe, Dirty, Trigger, Hear, SaveJob, StopOnSave, ExpireOnSave, EditByHand, autoVars
<1> QED
  BY <1>1, <1>2 DEF AutoNext, DeskStep

\* A step of a task leaves the others as they are.
LEMMA OthersStay ==
  ASSUME AutoTypeOK, NEW t \in Task, DeskStep(t), NEW u \in Task, u # t PROVE work'[u] = work[u]
<1>1. work \in WorkType
  BY DEF AutoTypeOK
<1>2. \/ \E w : work' = [work EXCEPT ![t] = w]
      \/ \E at, n : work' = [work EXCEPT ![t].at = at, ![t].run = n]
      \/ \E at : work' = [work EXCEPT ![t].at = at]
      \/ \E at, n : work' = [work EXCEPT ![t].at = at, ![t].token.permit.epoch = n]
  BY DEF DeskStep, TakeCompare, TakeApply, StartCompare, Launch, LaunchManual, LaunchPermitted,
         PublishManual, PublishPermitted, CompareFails, EndsRun, Claim, Authorize, ApplyRefused,
         Reserve, ReserveInteractive, ReserveUnattended, Reserves, Becomes, StartWrites,
         ExpireWritten, ApplyEnds
<1> QED
  BY <1>1, <1>2 DEF WorkType

\* Where a step of a task leaves it, and what it does to the slot and the runs.
LEMMA TaskMoves ==
  ASSUME AutoTypeOK, NEW t \in Task, DeskStep(t)
  PROVE  \/ /\ work'[t].at \notin AtRun /\ runs' = runs
            /\ slot' = IF slot = t THEN NoTask ELSE slot
         \/ /\ work'[t].at \notin AtRun /\ work[t].at \notin AtRun /\ runs' = runs /\ slot' = slot
         \/ /\ slot = NoTask /\ slot' = t /\ runs' = runs + 1
            /\ work'[t].at = "started" /\ work'[t].run = runs'
         \/ /\ work[t].at = "started" /\ work'[t].at = "comparing" /\ work'[t].run = work[t].run
            /\ UNCHANGED <<slot, runs>>
         \/ /\ slot = NoTask /\ slot' = t /\ runs' = runs
            /\ work[t].at = "prepared" /\ work'[t].at = "applying" /\ work'[t].token = work[t].token
         \/ /\ work[t].at \in {"applying", "writing"} /\ work'[t].at \in {"writing", "written"}
            /\ work[t].at = "writing" => work'[t].at = "written"
            /\ work'[t].token = work[t].token /\ UNCHANGED <<slot, runs>>
<1> USE DEF AutoTypeOK, WorkType, NoWork, AtRun
<1>1. ASSUME NEW k \in tokens, TakeCompare(t, k) \/ TakeApply(t, k)
      PROVE  work'[t].at \notin AtRun /\ work[t].at \notin AtRun /\ runs' = runs /\ slot' = slot
  BY <1>1 DEF TakeCompare, TakeApply, Unused
<1>2. ASSUME StartCompare(t)
      PROVE  /\ slot = NoTask /\ slot' = t /\ runs' = runs + 1
             /\ work'[t].at = "started" /\ work'[t].run = runs'
  BY <1>2 DEF StartCompare
<1>3. ASSUME Launch(t)
      PROVE  /\ work[t].at = "started" /\ work'[t].at = "comparing" /\ work'[t].run = work[t].run
             /\ UNCHANGED <<slot, runs>>
  BY <1>3 DEF Launch, LaunchManual, LaunchPermitted, Becomes
<1>4. ASSUME PublishManual(t) \/ PublishPermitted(t) \/ CompareFails(t) \/ ApplyEnds(t)
      PROVE  /\ work'[t].at \notin AtRun /\ runs' = runs
             /\ slot' = IF slot = t THEN NoTask ELSE slot
  BY <1>4 DEF PublishManual, PublishPermitted, CompareFails, ApplyEnds, EndsRun
<1>5. ASSUME Claim(t) \/ Authorize(t) \/ ApplyRefused(t)
      PROVE  work'[t].at \notin AtRun /\ work[t].at \notin AtRun /\ runs' = runs /\ slot' = slot
  BY <1>5 DEF Claim, Authorize, ApplyRefused, Unused
<1>6. ASSUME Reserve(t)
      PROVE  \/ work'[t].at \notin AtRun /\ work[t].at \notin AtRun /\ runs' = runs /\ slot' = slot
             \/ /\ slot = NoTask /\ slot' = t /\ runs' = runs
                /\ work[t].at = "prepared" /\ work'[t].at = "applying" /\ work'[t].token = work[t].token
  BY <1>6 DEF Reserve, ReserveInteractive, ReserveUnattended, MayReserve, Reserves, Becomes
<1>7. ASSUME StartWrites(t) \/ ExpireWritten(t)
      PROVE  /\ work[t].at \in {"applying", "writing"} /\ work'[t].at \in {"writing", "written"}
             /\ work[t].at = "writing" => work'[t].at = "written"
             /\ work'[t].token = work[t].token /\ UNCHANGED <<slot, runs>>
  BY <1>7 DEF StartWrites, ExpireWritten, Becomes
<1> HIDE DEF AutoTypeOK, WorkType, NoWork, AtRun
<1> QED
  BY <1>1, <1>2, <1>3, <1>4, <1>5, <1>6, <1>7 DEF DeskStep

LEMMA SlotStep ==
  ASSUME AutoTypeOK, SlotHeld, [AutoNext]_autoVars PROVE SlotHeld'
<1>1. CASE DeskKeeps \/ \E r \in 1..MaxRuns : Forget(r)
  BY <1>1 DEF DeskKeeps, Forget, SlotHeld
<1>2. ASSUME NEW t \in Task, DeskStep(t) PROVE SlotHeld'
  <2> SUFFICES ASSUME NEW u \in Task, work'[u].at \in AtRun PROVE slot' = u
    BY DEF SlotHeld
  <2>1. CASE u = t
    BY <1>2, <2>1, TaskMoves DEF SlotHeld, AtRun
  <2>2. CASE u # t
    <3>1. slot = u
      BY <1>2, <2>2, OthersStay DEF SlotHeld
    <3> QED
      BY <1>2, <2>2, <3>1, TaskMoves DEF Task, NoTask
  <2> QED
    BY <2>1, <2>2
<1> QED
  BY <1>1, <1>2, DeskSteps

\* What a step of a task does to the results.
LEMMA ResultMoves ==
  ASSUME AutoTypeOK, NEW t \in Task, DeskStep(t)
  PROVE  \/ UNCHANGED result
         \/ /\ Launch(t) /\ work[t].at = "started"
            /\ result' = [result EXCEPT ![work[t].run] =
                            [scope |-> work[t].token.scope, kept |-> FALSE,
                             epoch |-> exec'[work[t].token.scope].epoch,
                             wrote |-> wrote[work[t].token.scope.rev]]]
         \/ /\ work[t].at = "comparing" /\ work'[t] = NoWork /\ MayPublish(t)
            /\ PublishManual(t) \/ PublishPermitted(t)
            /\ exec' = [exec EXCEPT ![work[t].token.scope].at = "fresh"]
            /\ result' = [result EXCEPT ![work[t].run].kept = TRUE]
            /\ wrote' = wrote
<1> USE DEF jobVars, evidenceVars, scanVars, workerVars
<1>1. ASSUME Launch(t) PROVE work[t].at = "started"
  BY <1>1 DEF Launch, LaunchManual, LaunchPermitted
<1>2. ASSUME PublishManual(t) \/ PublishPermitted(t)
      PROVE  /\ work[t].at = "comparing" /\ work'[t] = NoWork /\ MayPublish(t) /\ wrote' = wrote
             /\ exec' = [exec EXCEPT ![work[t].token.scope].at = "fresh"]
             /\ result' = [result EXCEPT ![work[t].run].kept = TRUE]
  BY <1>2 DEF PublishManual, PublishPermitted, Publish, EndsRun, AutoTypeOK, WorkType
<1>3. ASSUME DeskStep(t), ~Launch(t), ~PublishManual(t), ~PublishPermitted(t) PROVE UNCHANGED result
  BY <1>3 DEF DeskStep, TakeCompare, TakeApply, StartCompare, CompareFails, Claim, Authorize,
       ApplyRefused, Reserve, StartWrites, ExpireWritten, ApplyEnds
<1>4. ASSUME Launch(t)
      PROVE  result' = [result EXCEPT ![work[t].run] =
                            [scope |-> work[t].token.scope, kept |-> FALSE,
                             epoch |-> exec'[work[t].token.scope].epoch,
                             wrote |-> wrote[work[t].token.scope.rev]]]
  BY <1>4 DEF Launch
<1> QED
  BY <1>1, <1>2, <1>3, <1>4

LEMMA LastRunStep ==
  ASSUME AutoTypeOK, AutoTypeOK', SlotHeld, SlotHeld', LastRun, [AutoNext]_autoVars PROVE LastRun'
<1> USE DEF AtCompare
<1>t. /\ result \in ResultType /\ runs \in 0..MaxRuns /\ runs' \in 0..MaxRuns /\ work \in WorkType
      /\ \A u \in Task : work[u].run \in Nat
  BY DEF AutoTypeOK, WorkType
<1>1. CASE DeskKeeps
  BY <1>1 DEF DeskKeeps, LastRun
<1>2. ASSUME NEW r \in 1..MaxRuns, Forget(r) PROVE LastRun'
  <2>1. UNCHANGED <<runs, work>> /\ \A q \in 1..MaxRuns : result'[q].kept => result[q].kept
    BY <1>2, <1>t DEF Forget, ResultType
  <2> QED
    BY <1>t, <2>1 DEF LastRun
<1>3. ASSUME NEW t \in Task, DeskStep(t) PROVE LastRun'
  <2>1. ASSUME NEW u \in Task, u # t, work[u].at \in AtCompare
        PROVE  slot = u /\ slot' = u /\ work'[u] = work[u]
    BY <1>3, <2>1, OthersStay DEF SlotHeld, AtRun
  <2>2. CASE UNCHANGED result
    <3>1. ASSUME NEW u \in Task, work'[u].at \in AtCompare
          PROVE  work'[u].run = runs' /\ runs' # 0 /\ ~result'[runs'].kept
      <4>1. CASE u = t
        <5>1. CASE work'[t].at = "started" /\ work'[t].run = runs' /\ runs' = runs + 1
          BY <1>t, <2>2, <4>1, <5>1 DEF LastRun
        <5>2. CASE work[t].at = "started" /\ work'[t].run = work[t].run /\ runs' = runs
          BY <1>t, <2>2, <4>1, <5>2 DEF LastRun
        <5> QED
          BY <1>3, <3>1, <4>1, <5>1, <5>2, TaskMoves DEF AtRun
      <4>2. CASE u # t
        <5>1. work'[u] = work[u] /\ slot = u
          BY <1>3, <3>1, <4>2, <2>1, OthersStay
        <5>2. runs' = runs
          BY <1>3, <5>1, TaskMoves DEF Task, NoTask
        <5> QED
          BY <2>2, <3>1, <5>1, <5>2 DEF LastRun
      <4> QED
        BY <4>1, <4>2
    <3>2. runs <= runs'
      BY <1>3, <1>t, TaskMoves
    <3> QED
      BY <1>t, <2>2, <3>1, <3>2 DEF LastRun
  <2>3. CASE work[t].at = "started" /\ \E r : r.kept = FALSE /\ result' = [result EXCEPT ![work[t].run] = r]
    <3>1. work[t].run = runs /\ runs # 0 /\ runs' = runs
      BY <1>3, <2>3, TaskMoves DEF LastRun, SlotHeld, AtRun, Task, NoTask
    <3>2. ~result'[runs].kept /\ \A q \in 1..MaxRuns : result'[q].kept => result[q].kept
      BY <1>t, <2>3, <3>1 DEF ResultType
    <3>3. ASSUME NEW u \in Task, work'[u].at \in AtCompare PROVE work'[u].run = runs
      BY <1>3, <1>t, <2>3, <3>1, <3>3, OthersStay, TaskMoves DEF LastRun, SlotHeld, AtRun, Task, NoTask
    <3> QED
      BY <1>t, <3>1, <3>2, <3>3 DEF LastRun
  <2>4. CASE /\ work[t].at = "comparing" /\ work'[t] = NoWork
             /\ result' = [result EXCEPT ![work[t].run].kept = TRUE]
    <3>1. work[t].run = runs /\ runs # 0 /\ runs' = runs
      BY <1>3, <2>4, TaskMoves DEF LastRun, SlotHeld, AtRun, NoWork
    <3>2. ASSUME NEW u \in Task PROVE work'[u].at \notin AtCompare
      BY <1>3, <2>4, OthersStay DEF SlotHeld, AtRun, NoWork
    <3>3. \A q \in 1..MaxRuns : result'[q].kept => q <= runs
      BY <1>t, <2>4, <3>1 DEF ResultType, LastRun
    <3> QED
      BY <3>1, <3>2, <3>3 DEF LastRun
  <2> QED
    <3>1. [scope |-> work[t].token.scope, kept |-> FALSE, epoch |-> exec'[work[t].token.scope].epoch,
           wrote |-> wrote[work[t].token.scope.rev]].kept = FALSE
      OBVIOUS
    <3> QED
      BY <1>3, <2>2, <2>3, <2>4, <3>1, ResultMoves
<1> QED
  BY <1>1, <1>2, <1>3, DeskSteps

-----------------------------------------------------------------------------
(* Tokens and tickets name published runs.                                 *)

LEMMA KnownStays ==
  ASSUME AutoTypeOK, AutoTypeOK', SlotHeld, LastRun, LastRun', [AutoNext]_autoVars, NEW r, Known(r)
  PROVE  Known(r)'
<1>t. runs \in Nat /\ runs' \in Nat
  BY DEF AutoTypeOK
<1>1. CASE DeskKeeps \/ \E q \in 1..MaxRuns : Forget(q)
  BY <1>1 DEF DeskKeeps, Forget, Known
<1>2. ASSUME NEW t \in Task, DeskStep(t) PROVE Known(r)'
  <2>1. runs' = runs \/ runs' = runs + 1
    BY <1>2, TaskMoves
  <2>2. CASE runs' = runs + 1
    BY <1>t, <2>2 DEF Known, LastRun
  <2>3. CASE runs' = runs
    <3>1. ASSUME NEW u \in Task, work'[u].at \in AtCompare PROVE work[u].at \in AtCompare
      BY <1>t, <1>2, <2>3, <3>1, TaskMoves, OthersStay DEF AtCompare, AtRun
    <3> QED
      BY <2>3, <3>1 DEF Known
  <2> QED
    BY <2>1, <2>2, <2>3
<1> QED
  BY <1>1, <1>2, DeskSteps

LEMMA BoundStays ==
  ASSUME AutoTypeOK, AutoTypeOK', SlotHeld, LastRun, LastRun', [AutoNext]_autoVars,
         NEW r, NEW scope, Bound(r, scope)
  PROVE  Bound(r, scope)'
<1>t. result \in ResultType /\ r \in 1..MaxRuns /\ Known(r)'
  <2>1. Known(r)'
    BY KnownStays DEF Bound
  <2> QED
    BY <2>1 DEF AutoTypeOK, Bound, Known
<1>1. CASE DeskKeeps
  BY <1>1, <1>t DEF DeskKeeps, Bound
<1>2. ASSUME NEW q \in 1..MaxRuns, Forget(q) PROVE result'[r].scope = result[r].scope
  BY <1>2, <1>t DEF Forget, ResultType
<1>3. ASSUME NEW t \in Task, DeskStep(t) PROVE result'[r].scope = result[r].scope
  <2>1. CASE \E c : result' = [result EXCEPT ![work[t].run] = c] /\ work[t].at = "started"
    <3>1. work[t].run # r
      BY <2>1 DEF Bound, Known, LastRun, AtCompare
    <3> QED
      BY <1>t, <2>1, <3>1 DEF ResultType
  <2>2. CASE result' = [result EXCEPT ![work[t].run].kept = TRUE]
    BY <1>t, <2>2 DEF ResultType
  <2> QED
    BY <1>3, <2>1, <2>2, ResultMoves
<1> QED
  BY <1>1, <1>2, <1>3, <1>t, DeskSteps DEF Bound

\* Where the tokens that can apply come from.
LEMMA TokenMoves ==
  ASSUME AutoTypeOK, [AutoNext]_autoVars, NEW k \in tokens', IsApply(k), k \notin tokens
  PROVE  \/ \E r \in 1..MaxRuns : ReviewApply(r) /\ k.run = r /\ k.scope = result[r].scope /\ k.kind = "review"
         \/ \E j \in tokens : IsApply(j) /\ k.kind = "interactive" /\ k = [j EXCEPT !.kind = "interactive"]
         \/ \E t \in Task : work[t].at = "claimed" /\ k = work[t].token /\ exec' = exec
<1> USE DEF jobVars, evidenceVars, scanVars, workerVars, ObserverKeeps, WorkerKeeps
<1>t. \A j \in tokens : j \in Token
  BY DEF AutoTypeOK
<1>1. ASSUME NEW r \in 1..MaxRuns, ReviewApply(r)
      PROVE  k.run = r /\ k.scope = result[r].scope /\ k.kind = "review"
  BY <1>1 DEF ReviewApply, Issues
<1>2. ASSUME NEW j \in tokens, Approve(j)
      PROVE  IsApply(j) /\ k = [j EXCEPT !.kind = "interactive"] /\ k.kind = "interactive"
  BY <1>2, <1>t DEF Approve, IsApply, Token
<1>3. ASSUME NEW t \in Task, Authorize(t) PROVE work[t].at = "claimed" /\ k = work[t].token /\ exec' = exec
  BY <1>3 DEF Authorize, Issues
<1>4. ASSUME NEW scope, NEW permit, Issues([NoToken EXCEPT !.kind = "compare", !.scope = scope, !.permit = permit])
      PROVE  FALSE
  <2>1. k = [NoToken EXCEPT !.kind = "compare", !.scope = scope, !.permit = permit]
    BY <1>4 DEF Issues
  <2> QED
    BY <2>1 DEF NoToken, IsApply
<1>5. ASSUME NEW g \in Target, ReviewCompare(g) PROVE FALSE
  <2>1. k = [NoToken EXCEPT !.kind = "compare", !.scope = [rev |-> revision, target |-> g]]
    BY <1>5 DEF ReviewCompare, Issues
  <2> QED
    BY <2>1 DEF NoToken, IsApply
<1>6. ~ReviewTrigger
  BY <1>4 DEF ReviewTrigger
<1>7. ASSUME tokens' \subseteq tokens PROVE FALSE
  BY <1>7
<1>8. ASSUME NEW t \in Task, DeskStep(t), ~Authorize(t) PROVE FALSE
  BY <1>7, <1>8 DEF DeskStep, TakeCompare, TakeApply, StartCompare, Revoked, Launch, PublishManual,
     PublishPermitted, CompareFails, Claim, ApplyRefused, Reserve, StartWrites, ExpireWritten, ApplyEnds
<1>9. ASSUME \/ \E j \in tokens : Expires(j)
             \/ \E r \in 1..MaxRuns : Forget(r)
             \/ \E g \in Target : StartBegins(g)
             \/ ReviewTriggerFails \/ Decline \/ StopBegins \/ Joined
      PROVE  FALSE
  BY <1>7, <1>9 DEF Expires, Forget, StartBegins, ReviewTriggerFails, Decline, StopBegins, Joined
<1>10. ASSUME \/ Observe \/ Dirty \/ Trigger \/ Hear
              \/ \E new \in Rev \cup {Deleted} : SaveJob(new)
              \/ StopOnSave \/ ExpireOnSave
              \/ \E new \in Rev : EditByHand(new)
              \/ UNCHANGED autoVars
       PROVE  FALSE
  BY <1>7, <1>10 DEF Observe, Dirty, Trigger, Revoked, Hear, SaveJob, StopOnSave, ExpireOnSave, EditByHand, autoVars
<1> QED
  BY <1>1, <1>2, <1>3, <1>5, <1>6, <1>8, <1>9, <1>10 DEF AutoNext, DeskStep

\* Where the tokens at work come from.
LEMMA WorkMoves ==
  ASSUME AutoTypeOK, [AutoNext]_autoVars, NEW t \in Task, work'[t].at \in {"claimed", "prepared"},
         work'[t] # work[t]
  PROVE  \/ Claim(t) /\ work'[t].token = [kind |-> "auto", scope |-> active.scope, run |-> shared.ticket.run,
                                          permit |-> TicketPermit, saves |-> left["save"]]
         \/ \E k \in tokens : TakeApply(t, k) /\ work'[t].token = k /\ k.kind \in {"interactive", "auto"}
<1> USE DEF AutoTypeOK, WorkType
<1>1. ASSUME DeskKeeps \/ \E r \in 1..MaxRuns : Forget(r) PROVE FALSE
  BY <1>1 DEF DeskKeeps, Forget
<1>2. PICK u \in Task : DeskStep(u)
  BY <1>1, DeskSteps
<1>3. u = t
  BY <1>2, OthersStay
<1>4. ASSUME NEW k \in tokens, TakeCompare(t, k) PROVE FALSE
  BY <1>4 DEF TakeCompare
<1>5. ASSUME NEW k \in tokens, TakeApply(t, k)
      PROVE  work'[t].token = k /\ k.kind \in {"interactive", "auto"}
  BY <1>5 DEF TakeApply
<1>6. ASSUME Claim(t)
      PROVE  work'[t].token = [kind |-> "auto", scope |-> active.scope, run |-> shared.ticket.run,
                               permit |-> TicketPermit, saves |-> left["save"]]
  BY <1>6 DEF Claim
<1>7. ASSUME StartCompare(t) \/ Launch(t) \/ PublishManual(t) \/ PublishPermitted(t) \/ CompareFails(t)
      PROVE  FALSE
  BY <1>7 DEF StartCompare, Launch, LaunchManual, LaunchPermitted, Becomes, PublishManual, PublishPermitted,
     CompareFails, EndsRun, NoWork
<1>8. ASSUME \/ Authorize(t) \/ ApplyRefused(t) \/ Reserve(t)
             \/ StartWrites(t) \/ ExpireWritten(t) \/ ApplyEnds(t)
      PROVE  FALSE
  BY <1>8 DEF Authorize, ApplyRefused, Reserve, ReserveInteractive, ReserveUnattended, Reserves, Becomes,
     StartWrites, ExpireWritten, ApplyEnds, EndsRun, NoWork
<1> QED
  BY <1>2, <1>3, <1>4, <1>5, <1>6, <1>7, <1>8 DEF DeskStep

\* What happens to a ticket: it is given up, goes on, is completed, or is a new one.
TicketKept == shared'.ticket.id = shared.ticket.id /\ shared'.ticket.run = shared.ticket.run
              /\ shared'.live = shared.live /\ UNCHANGED <<active, worker>>

LEMMA TicketMoves ==
  ASSUME AutoTypeOK, [AutoNext]_autoVars
  PROVE  \/ shared'.ticket.at = "idle" /\ worker'.at \notin {"observed", "dirtied"}
         \/ shared'.ticket.at = "idle" /\ UNCHANGED worker
         \/ UNCHANGED <<shared, active>> /\ \/ Dirty \/ Hear \/ UNCHANGED worker
         \/ UNCHANGED <<shared, active>> /\ Observe /\ shared.ticket.at \notin Pending
              /\ worker' = [worker EXCEPT !.at = "observed", !.id = worker.id + 1]
         \/ UNCHANGED <<shared, active>> /\ worker'.at = "off" /\ ~shared.live
         \/ UNCHANGED active /\ worker.at = "dirtied"
              /\ shared.live /\ shared'.live /\ shared'.ticket.id = worker.id
              /\ shared'.ticket.at = "awaiting" /\ worker'.at = "waiting" /\ worker'.id = worker.id
         \/ \E t \in Task : PublishPermitted(t) /\ active.auto
              /\ shared.ticket.at = "running" /\ shared'.ticket.at = "completed"
              /\ shared'.ticket.run = work[t].run
              /\ shared'.ticket.id = shared.ticket.id /\ shared'.live = shared.live
              /\ UNCHANGED <<active, worker>>
         \/ TicketKept /\ shared.ticket.at \in {"awaiting", "permitted"}
              /\ shared'.ticket.at \in {"permitted", "running"}
         \/ TicketKept /\ shared.ticket.at \in {"completed", "claimed"}
              /\ shared'.ticket.at \in {"claimed", "authorized"}
<1> USE DEF jobVars, evidenceVars, scanVars, workerVars, ObserverKeeps, WorkerKeeps, TicketKept
<1>t. shared \in SharedType /\ worker \in WorkerType
  BY DEF AutoTypeOK
<1> DEFINE Given == \/ shared'.ticket.at = "idle" /\ worker'.at \notin {"observed", "dirtied"}
                    \/ shared'.ticket.at = "idle" /\ UNCHANGED worker
           Still == UNCHANGED <<shared, active>> /\ UNCHANGED worker
<1>1. ASSUME Terminalize \/ Deactivates, UNCHANGED worker PROVE Given
  <2>1. CASE Terminalize
    <3>1. shared'.ticket = NoTicket
      BY <1>t, <2>1 DEF Terminalize, SharedType
    <3> QED
      BY <1>1, <3>1 DEF NoTicket
  <2>2. CASE Deactivates
    <3>1. shared'.ticket = NoTicket
      BY <1>t, <2>2 DEF Deactivates, SharedType
    <3> QED
      BY <1>1, <3>1 DEF NoTicket
  <2> QED
    BY <1>1, <2>1, <2>2
<1>2. ASSUME NEW g, Spawns(g) PROVE Given
  BY <1>2 DEF Spawns, NoTicket
<1>3. ASSUME NEW t \in Task, CompareFails(t) PROVE Given \/ Still
  BY <1>1, <1>3 DEF CompareFails, Abandons
<1>4. ASSUME ReviewTriggerFails \/ Decline \/ StopBegins PROVE Given
  BY <1>1, <1>4 DEF ReviewTriggerFails, Decline, StopBegins
<1>5. ASSUME NEW g \in Target, StartBegins(g) PROVE Given
  BY <1>1, <1>2, <1>5 DEF StartBegins
<1>6. ASSUME Joined \/ StopOnSave PROVE Given \/ Still
  BY <1>1, <1>2, <1>6 DEF Joined, StopOnSave
<1>7. ASSUME Dirty \/ Hear PROVE UNCHANGED <<shared, active>>
  BY <1>7 DEF Dirty, Hear
<1>8. ASSUME Observe
      PROVE  \/ Given
             \/ UNCHANGED <<shared, active>> /\ worker'.at = "off" /\ ~shared.live
             \/ UNCHANGED <<shared, active>> /\ shared.ticket.at \notin Pending
                  /\ worker' = [worker EXCEPT !.at = "observed", !.id = worker.id + 1]
  <2>1. CASE ~shared.live
    BY <1>8, <1>t, <2>1 DEF Observe, WorkerType
  <2>2. CASE shared.live /\ shared.ticket.at \in Pending
    <3>1. shared'.ticket = NoTicket
      BY <1>8, <1>t, <2>2 DEF Observe, SharedType
    <3>2. worker'.at = "off"
      BY <1>8, <1>t, <2>2 DEF Observe, WorkerType
    <3> QED
      BY <3>1, <3>2 DEF NoTicket
  <2>3. CASE shared.live /\ shared.ticket.at \notin Pending
    BY <1>8, <1>t, <2>3 DEF Observe
  <2> QED
    BY <2>1, <2>2, <2>3
<1>9. ASSUME Trigger
      PROVE  /\ UNCHANGED active /\ worker.at = "dirtied"
             /\ \/ Given
                \/ shared.live /\ shared'.live /\ shared'.ticket.id = worker.id
                      /\ shared'.ticket.at = "awaiting" /\ worker'.at = "waiting" /\ worker'.id = worker.id
                \/ UNCHANGED shared /\ ~shared.live /\ worker'.at = "off"
  <2>1. UNCHANGED active /\ worker.at = "dirtied"
    BY <1>9 DEF Trigger
  <2>2. CASE revision = worker.scope.rev /\ shared.live
    <3>1. worker'.at = "waiting" /\ worker'.id = worker.id
      BY <1>9, <1>t, <2>2 DEF Trigger, WorkerType
    <3>2. shared' = [shared EXCEPT !.latest = worker.id,
                       !.ticket = [at |-> "awaiting", id |-> worker.id, epoch |-> worker.epoch, run |-> 0]]
      BY <1>9, <2>2 DEF Trigger
    <3>3. shared'.live = shared.live /\ shared'.ticket.id = worker.id /\ shared'.ticket.at = "awaiting"
      BY <1>t, <3>2 DEF SharedType
    <3> QED
      BY <2>1, <2>2, <3>1, <3>3
  <2>3. CASE revision # worker.scope.rev
    <3>1. shared'.ticket = NoTicket
      BY <1>9, <1>t, <2>3 DEF Trigger, SharedType
    <3>2. worker'.at = "off"
      BY <1>9, <1>t, <2>3 DEF Trigger, WorkerType
    <3> QED
      BY <2>1, <3>1, <3>2 DEF NoTicket
  <2>4. CASE revision = worker.scope.rev /\ ~shared.live
    BY <1>9, <1>t, <2>1, <2>4 DEF Trigger, WorkerType
  <2> QED
    BY <2>2, <2>3, <2>4
<1>10. ASSUME NEW t \in Task, PublishPermitted(t)
       PROVE  \/ Given
              \/ /\ active.auto /\ shared.ticket.at = "running" /\ shared'.ticket.at = "completed"
                 /\ shared'.ticket.run = work[t].run
                 /\ shared'.ticket.id = shared.ticket.id /\ shared'.live = shared.live
                 /\ UNCHANGED <<active, worker>>
  BY <1>10, <1>t DEF PublishPermitted, NoTicket, SharedType, TicketType
<1>11. ASSUME ReviewTrigger \/ \E t \in Task : Launch(t)
       PROVE  \/ Still
              \/ /\ TicketKept /\ shared.ticket.at \in {"awaiting", "permitted"}
                 /\ shared'.ticket.at \in {"permitted", "running"}
  <2>1. CASE ReviewTrigger
    BY <1>t, <2>1 DEF ReviewTrigger, SharedType, TicketType
  <2>2. ASSUME NEW t \in Task, Launch(t), LaunchManual(t) PROVE Still
    BY <2>2 DEF Launch, LaunchManual
  <2>3. ASSUME NEW t \in Task, Launch(t), LaunchPermitted(t)
        PROVE  /\ TicketKept /\ shared.ticket.at \in {"awaiting", "permitted"}
               /\ shared'.ticket.at \in {"permitted", "running"}
    BY <1>t, <2>3 DEF Launch, LaunchPermitted, CanLaunch, SharedType, TicketType
  <2> QED
    BY <1>11, <2>1, <2>2, <2>3 DEF Launch
<1>12. ASSUME NEW t \in Task, Claim(t) \/ Authorize(t)
       PROVE  \/ Given
              \/ /\ TicketKept /\ shared.ticket.at \in {"completed", "claimed"}
                 /\ shared'.ticket.at \in {"claimed", "authorized"}
  BY <1>12, <1>t DEF Claim, Authorize, TicketIs, NoTicket, SharedType, TicketType
<1>13. ASSUME NEW t \in Task, Reserve(t) PROVE Given \/ Still
  BY <1>13, <1>t DEF Reserve, ReserveInteractive, ReserveUnattended, NoTicket, SharedType
<1>14. ASSUME NEW t \in Task,
              \/ StartCompare(t) \/ PublishManual(t) \/ ApplyRefused(t) \/ StartWrites(t)
              \/ ExpireWritten(t) \/ ApplyEnds(t)
       PROVE  Still
  BY <1>14 DEF StartCompare, PublishManual, ApplyRefused, StartWrites, ExpireWritten, ApplyEnds
<1>15. ASSUME NEW k \in tokens,
              Approve(k) \/ Expires(k) \/ \E t \in Task : TakeCompare(t, k) \/ TakeApply(t, k)
       PROVE  Still
  BY <1>15 DEF Approve, Expires, TakeCompare, TakeApply
<1>16. ASSUME \/ \E r \in 1..MaxRuns : ReviewApply(r) \/ Forget(r)
              \/ \E g \in Target : ReviewCompare(g)
              \/ \E new \in Rev \cup {Deleted} : SaveJob(new)
              \/ \E new \in Rev : EditByHand(new)
              \/ ExpireOnSave \/ UNCHANGED autoVars
       PROVE  Still
  BY <1>16 DEF ReviewApply, Forget, ReviewCompare, SaveJob, EditByHand, ExpireOnSave, autoVars
<1> QED
  BY <1>3, <1>4, <1>5, <1>6, <1>7, <1>8, <1>9, <1>10, <1>11, <1>12, <1>13, <1>14, <1>15, <1>16 DEF AutoNext

LEMMA BoundStep ==
  ASSUME AutoTypeOK, AutoTypeOK', Linked, SlotHeld, SlotHeld', LastRun, LastRun', TokensBound,
         PermitsBelong, Current, [AutoNext]_autoVars
  PROVE  TokensBound'
<1>t. \A k \in tokens : k \in Token
  BY DEF AutoTypeOK
<1>1. ASSUME NEW k \in tokens', IsApply(k) PROVE Bound(k.run, k.scope)'
  <2>1. CASE k \in tokens
    BY <1>1, <2>1, BoundStays DEF TokensBound
  <2>2. ASSUME NEW r \in 1..MaxRuns, ReviewApply(r), k.run = r, k.scope = result[r].scope
        PROVE  Bound(k.run, k.scope)'
    <3>1. result[r].kept
      BY <2>2 DEF ReviewApply, IsFresh
    <3>2. Known(r)
      BY <3>1 DEF LastRun, Known, AutoTypeOK
    <3>3. Bound(k.run, k.scope)
      BY <2>2, <3>2 DEF Bound
    <3> QED
      BY <3>3, BoundStays
  <2>3. ASSUME NEW j \in tokens, IsApply(j), k = [j EXCEPT !.kind = "interactive"]
        PROVE  Bound(k.run, k.scope)'
    <3>1. k.run = j.run /\ k.scope = j.scope
      BY <1>t, <2>3 DEF Token
    <3> QED
      BY <2>3, <3>1, BoundStays DEF TokensBound
  <2>4. ASSUME NEW t \in Task, work[t].at = "claimed", k = work[t].token
        PROVE  Bound(k.run, k.scope)'
    BY <2>4, BoundStays DEF TokensBound
  <2> QED
    BY <1>1, <2>1, <2>2, <2>3, <2>4, TokenMoves
<1>2. ASSUME NEW t \in Task, work'[t].at \in {"claimed", "prepared"},
             NEW run, run = work'[t].token.run, NEW scope, scope = work'[t].token.scope
      PROVE  Bound(run, scope)'
  <2>1. CASE work'[t] = work[t]
    BY <1>2, <2>1, BoundStays DEF TokensBound
  <2>2. ASSUME Claim(t), work'[t].token = [kind |-> "auto", scope |-> active.scope, run |-> shared.ticket.run,
                               permit |-> TicketPermit, saves |-> left["save"]]
        PROVE  Bound(run, scope)'
    BY <1>2, <2>2, BoundStays DEF TokensBound, Claim
  <2>3. ASSUME NEW k \in tokens, work'[t].token = k, k.kind \in {"interactive", "auto"}
        PROVE  Bound(run, scope)'
    BY <1>2, <2>3, BoundStays DEF TokensBound, IsApply
  <2> QED
    BY <1>2, <2>1, <2>2, <2>3, WorkMoves
<1>3. ASSUME shared'.ticket.at = "completed", active' # NoGeneration,
             NEW run, run = shared'.ticket.run, NEW scope, scope = active'.scope
      PROVE  Bound(run, scope)'
  <2>1. CASE UNCHANGED <<shared, active>>
    BY <1>3, <2>1, BoundStays DEF TokensBound
  <2>2. ASSUME NEW t \in Task, PublishPermitted(t), shared'.ticket.run = work[t].run, UNCHANGED active
        PROVE  Bound(run, scope)'
    <3>1. work[t].at = "comparing" /\ OwnsPermit(work[t].token.permit) /\ work'[t] = NoWork
      BY <2>2 DEF PublishPermitted, EndsRun, AutoTypeOK, WorkType
    <3>2. active.gen = shared.gen /\ active.gen # 0 /\ active.scope = worker.scope
          /\ active.gen = work[t].token.permit.gen
      BY <3>1 DEF OwnsPermit, Binds, Linked
    <3>3. work[t].token.scope = active.scope
      BY <3>1, <3>2 DEF PermitsBelong, Belongs
    <3>4. work[t].run = runs /\ runs' = runs /\ runs # 0 /\ slot = t
      BY <2>2, <3>1 DEF LastRun, AtCompare, AtRun, SlotHeld, PublishPermitted
    <3>5. ASSUME NEW u \in Task PROVE work'[u].at \notin AtCompare
      BY <2>2, <3>1, <3>4, OthersStay DEF DeskStep, SlotHeld, AtRun, AtCompare, NoWork
    <3>6. Known(runs)'
      BY <3>4, <3>5 DEF Known, AutoTypeOK
    <3>7. result'[runs].scope = result[runs].scope
      BY <2>2, <3>4 DEF PublishPermitted, Publish, AutoTypeOK, ResultType
    <3>8. result[runs].scope = work[t].token.scope
      BY <3>1, <3>4 DEF Current, Launched
    <3> QED
      BY <1>3, <2>2, <3>3, <3>4, <3>6, <3>7, <3>8 DEF Bound
  <2>3. CASE TicketKept /\ shared.ticket.at \in {"awaiting", "permitted"}
              /\ shared'.ticket.at \in {"permitted", "running"}
    BY <1>3, <2>3
  <2> QED
    BY <1>3, <2>1, <2>2, <2>3, TicketMoves
<1> QED
  <2>1. \A t \in Task : work'[t].at \in {"claimed", "prepared"} =>
          \A run, scope : run = work'[t].token.run /\ scope = work'[t].token.scope => Bound(run, scope)'
    BY <1>2
  <2>2. shared'.ticket.at = "completed" /\ active' # NoGeneration =>
          \A run, scope : run = shared'.ticket.run /\ scope = active'.scope => Bound(run, scope)'
    BY <1>3
  <2> QED
    BY <1>1, <2>1, <2>2 DEF TokensBound, Bound, Known

-----------------------------------------------------------------------------
(* Fresh evidence has seen every write.                                    *)

\* Only a publication makes evidence fresh.
LEMMA ExecMoves ==
  ASSUME AutoTypeOK, [AutoNext]_autoVars, NEW s \in Scope, exec'[s].at = "fresh"
  PROVE  \/ exec'[s] = exec[s]
         \/ \E t \in Task : /\ PublishManual(t) \/ PublishPermitted(t)
                            /\ s = work[t].token.scope
<1> USE DEF jobVars, evidenceVars, scanVars, workerVars, ObserverKeeps, WorkerKeeps
<1>t. exec \in ExecType
  BY DEF AutoTypeOK
<1>1. ASSUME NEW p, NEW e, exec' = Ended(p, e) PROVE exec'[s] = exec[s]
  BY <1>1, <1>t DEF Ended, ExecType
<1>2. ASSUME NEW p, NEW n, exec' = Begun(exec, p, n) PROVE exec'[s] = exec[s]
  BY <1>2, <1>t DEF Begun, ExecType
<1>3. ASSUME NEW revisions, exec' = Expired(exec, revisions) PROVE exec'[s] = exec[s]
  BY <1>3, <1>t DEF Expired, ExecType
<1>4. ASSUME Terminalize \/ Deactivates PROVE exec'[s] = exec[s]
  BY <1>1, <1>4 DEF Terminalize, Deactivates
<1>5. ASSUME NEW t \in Task, Launch(t) PROVE exec'[s] = exec[s]
  <2>1. CASE LaunchManual(t)
    BY <1>2, <2>1 DEF LaunchManual
  <2>2. CASE LaunchPermitted(t)
    BY <1>t, <2>2 DEF LaunchPermitted, ExecType
  <2> QED
    BY <1>5, <2>1, <2>2 DEF Launch
<1>6. ASSUME NEW t \in Task, PublishManual(t) \/ PublishPermitted(t), s # work[t].token.scope
      PROVE  exec'[s] = exec[s]
  BY <1>6, <1>t DEF PublishManual, PublishPermitted, Publish, ExecType
<1>7. ASSUME NEW t \in Task, CompareFails(t) \/ ExpireWritten(t) PROVE exec'[s] = exec[s]
  BY <1>1, <1>3, <1>4, <1>7 DEF CompareFails, Abandons, ExpireWritten
<1>8. ASSUME NEW t \in Task, DeskStep(t), ~Launch(t), ~PublishManual(t), ~PublishPermitted(t),
             ~CompareFails(t), ~ExpireWritten(t)
      PROVE  exec'[s] = exec[s]
  BY <1>8 DEF DeskStep, TakeCompare, TakeApply, StartCompare, Claim, Authorize, ApplyRefused, Reserve,
       StartWrites, ApplyEnds
<1>9. ASSUME \/ \E k \in tokens : Approve(k) \/ Expires(k)
             \/ \E r \in 1..MaxRuns : ReviewApply(r)
             \/ \E g \in Target : ReviewCompare(g) \/ StartBegins(g)
             \/ ReviewTrigger \/ ReviewTriggerFails \/ Decline \/ StopBegins \/ Joined
      PROVE  exec'[s] = exec[s]
  BY <1>4, <1>9 DEF Approve, Expires, ReviewApply, ReviewCompare, StartBegins, ReviewTrigger,
       ReviewTriggerFails, Decline, StopBegins, Joined
<1>10. ASSUME NEW r \in 1..MaxRuns, Forget(r) PROVE exec'[s] = exec[s]
  BY <1>10, <1>t DEF Forget, NoExecution, ExecType
<1>11. ASSUME Observe \/ Dirty \/ Trigger \/ Hear PROVE exec'[s] = exec[s]
  BY <1>1, <1>2, <1>11 DEF Observe, Dirty, Trigger, Hear
<1>12. ASSUME \/ \E new \in Rev \cup {Deleted} : SaveJob(new)
              \/ StopOnSave \/ ExpireOnSave
              \/ \E new \in Rev : EditByHand(new)
              \/ UNCHANGED autoVars
       PROVE  exec'[s] = exec[s]
  BY <1>3, <1>4, <1>12 DEF SaveJob, StopOnSave, ExpireOnSave, EditByHand, autoVars
<1> QED
  BY <1>5, <1>6, <1>7, <1>8, <1>9, <1>10, <1>11, <1>12 DEF AutoNext, DeskStep

LEMMA WroteMoves ==
  ASSUME AutoTypeOK, NEW t \in Task, DeskStep(t)
  PROVE  \/ UNCHANGED wrote
         \/ /\ work[t].at = "applying" /\ work'[t].at = "writing" /\ work'[t].token = work[t].token
            /\ UNCHANGED <<result, exec>>
            /\ wrote' = [wrote EXCEPT ![work[t].token.scope.rev] = @ + 1]
<1>1. ASSUME StartWrites(t)
      PROVE  /\ work[t].at = "applying" /\ work'[t].at = "writing" /\ work'[t].token = work[t].token
             /\ UNCHANGED <<result, exec>>
             /\ wrote' = [wrote EXCEPT ![work[t].token.scope.rev] = @ + 1]
  BY <1>1 DEF StartWrites, Becomes, AutoTypeOK, WorkType, evidenceVars
<1>2. ASSUME DeskStep(t), ~StartWrites(t) PROVE UNCHANGED wrote
  BY <1>2 DEF DeskStep, TakeCompare, TakeApply, StartCompare, Launch, PublishManual, PublishPermitted,
       CompareFails, Claim, Authorize, ApplyRefused, Reserve, ExpireWritten, ApplyEnds
<1> QED
  BY <1>1, <1>2

\* Who writes stays at it until it has expired the evidence of its revision.
LEMMA WriterMoves ==
  ASSUME AutoTypeOK, NEW t \in Task, DeskStep(t), work[t].at = "writing", NEW s \in Scope,
         s.rev = work[t].token.scope.rev
  PROVE  exec'[s].at # "fresh"
<1>1. ExpireWritten(t)
  BY DEF DeskStep, TakeCompare, TakeApply, Unused, NoWork, StartCompare, Launch, LaunchManual, LaunchPermitted,
     PublishManual, PublishPermitted, CompareFails, Claim, Authorize, ApplyRefused, Reserve, ReserveInteractive,
     ReserveUnattended, StartWrites, ApplyEnds
<1> QED
  BY <1>1 DEF ExpireWritten, Expired, AutoTypeOK, ExecType

\* Evidence that stays fresh: its result is not touched, and every later write is in the slot.
LEMMA FreshStays ==
  ASSUME Inv, AutoTypeOK', SlotHeld', LastRun', [AutoNext]_autoVars,
         NEW s \in Scope, exec[s].at = "fresh", exec'[s] = exec[s]
  PROVE  /\ result'[exec[s].run].kept /\ result'[exec[s].run].scope = s
         /\ \/ result'[exec[s].run].wrote = wrote'[s.rev]
            \/ \E t \in Task : work'[t].at = "writing" /\ work'[t].token.scope.rev = s.rev
<1> DEFINE r == exec[s].run
<1>t. result \in ResultType /\ wrote \in [Rev -> Nat] /\ AutoTypeOK /\ s.rev \in Rev
  BY DEF Inv, AutoTypeOK, Scope
<1>f. /\ r \in 1..MaxRuns /\ result[r].kept /\ result[r].scope = s
      /\ \/ result[r].wrote = wrote[s.rev]
         \/ \E t \in Task : work[t].at = "writing" /\ work[t].token.scope.rev = s.rev
  BY DEF Inv, Current, FreshIsCurrent
<1> HIDE DEF r
<1>1. CASE DeskKeeps
  BY <1>1, <1>f DEF DeskKeeps, r
<1>2. ASSUME NEW q \in 1..MaxRuns, Forget(q)
      PROVE  result'[r] = result[r] /\ UNCHANGED <<wrote, work>>
  <2>1. CASE q = r
    <3>1. IsFresh(q)
      BY <1>2, <1>f, <2>1 DEF IsFresh, r
    <3>2. exec' = [exec EXCEPT ![s] = NoExecution]
      BY <1>2, <1>f, <2>1, <3>1 DEF Forget
    <3>3. exec'[s].at = "none"
      BY <1>t, <3>2 DEF AutoTypeOK, ExecType, NoExecution
    <3> QED
      BY <3>3
  <2>2. CASE q # r
    BY <1>2, <1>f, <1>t, <2>2 DEF Forget, ResultType
  <2> QED
    BY <2>1, <2>2
<1>3. ASSUME NEW t \in Task, DeskStep(t)
      PROVE  /\ result'[r].kept /\ result'[r].scope = s
             /\ \/ result'[r].wrote = wrote'[s.rev]
                \/ \E u \in Task : work'[u].at = "writing" /\ work'[u].token.scope.rev = s.rev
  <2>1. /\ result'[r].kept /\ result'[r].scope = s /\ result'[r].wrote = result[r].wrote
    <3>1. CASE work[t].at = "started" /\ \E c : result' = [result EXCEPT ![work[t].run] = c]
      <4>1. work[t].run # r
        BY <1>f, <3>1 DEF Inv, LastRun, AtCompare
      <4> QED
        BY <1>f, <1>t, <3>1, <4>1 DEF ResultType
    <3>2. CASE result' = [result EXCEPT ![work[t].run].kept = TRUE]
      BY <1>f, <1>t, <3>2 DEF ResultType
    <3> QED
      BY <1>3, <1>f, <1>t, <3>1, <3>2, ResultMoves
  <2>2. CASE \E u \in Task : work[u].at = "writing" /\ work[u].token.scope.rev = s.rev
    <3>1. PICK u \in Task : work[u].at = "writing" /\ work[u].token.scope.rev = s.rev
      BY <2>2
    <3>2. u # t
      BY <1>3, <1>t, <3>1, WriterMoves
    <3>3. work'[u] = work[u]
      BY <1>3, <1>t, <3>2, OthersStay
    <3> QED
      BY <2>1, <3>1, <3>3
  <2>3. CASE result[r].wrote = wrote[s.rev]
    <3>1. CASE UNCHANGED wrote
      BY <2>1, <2>3, <3>1
    <3>2. CASE /\ work'[t].at = "writing" /\ work'[t].token = work[t].token
               /\ wrote' = [wrote EXCEPT ![work[t].token.scope.rev] = @ + 1]
      <4>1. CASE work[t].token.scope.rev = s.rev
        BY <2>1, <3>2, <4>1
      <4>2. CASE work[t].token.scope.rev # s.rev
        <5>1. wrote'[s.rev] = wrote[s.rev]
          BY <1>t, <3>2, <4>2
        <5> QED
          BY <2>1, <2>3, <5>1
      <4> QED
        BY <4>1, <4>2
    <3> QED
      BY <1>3, <1>t, <3>1, <3>2, WroteMoves
  <2> QED
    BY <1>f, <2>2, <2>3
<1>4. ASSUME NEW q \in 1..MaxRuns, Forget(q)
      PROVE  /\ result'[r].kept /\ result'[r].scope = s
             /\ \/ result'[r].wrote = wrote'[s.rev]
                \/ \E u \in Task : work'[u].at = "writing" /\ work'[u].token.scope.rev = s.rev
  <2>1. result'[r] = result[r] /\ wrote' = wrote /\ work' = work
    BY <1>2, <1>4
  <2> QED
    BY <1>f, <2>1
<1> QED
  BY <1>1, <1>3, <1>4, DeskSteps DEF r

\* The steps that leave a task comparing, or applying.
LEMMA ToRun ==
  ASSUME AutoTypeOK, NEW u \in Task, DeskStep(u), work'[u] # work[u]
  PROVE  /\ work'[u].at = "comparing" => Launch(u)
         /\ work'[u].at = "applying" => Reserve(u)
<1> USE DEF AutoTypeOK, WorkType, NoWork
<1>1. ASSUME NEW k \in tokens, TakeCompare(u, k) \/ TakeApply(u, k)
      PROVE  work'[u].at \in {"burnt", "prepared"}
  BY <1>1 DEF TakeCompare, TakeApply
<1>2. ASSUME StartCompare(u) \/ Claim(u) PROVE work'[u].at \in {"started", "claimed"}
  BY <1>2 DEF StartCompare, Claim
<1>3. ASSUME PublishManual(u) \/ PublishPermitted(u) \/ CompareFails(u) \/ ApplyEnds(u) PROVE work'[u].at = "idle"
  BY <1>3 DEF PublishManual, PublishPermitted, CompareFails, ApplyEnds, EndsRun
<1>4. ASSUME Authorize(u) \/ ApplyRefused(u) PROVE work'[u].at = "idle"
  BY <1>4 DEF Authorize, ApplyRefused
<1>5. ASSUME StartWrites(u) \/ ExpireWritten(u) PROVE work'[u].at \in {"writing", "written"}
  BY <1>5 DEF StartWrites, ExpireWritten, Becomes
<1>6. ASSUME Launch(u) PROVE work'[u].at = "comparing"
  BY <1>6 DEF Launch, LaunchManual, LaunchPermitted, Becomes
<1>7. ASSUME Reserve(u) PROVE work'[u].at \in {"idle", "applying"}
  BY <1>7 DEF Reserve, ReserveInteractive, ReserveUnattended, Reserves, Becomes
<1> HIDE DEF AutoTypeOK, WorkType, NoWork
<1> QED
  BY <1>1, <1>2, <1>3, <1>4, <1>5, <1>6, <1>7 DEF DeskStep

LEMMA CurrentStep ==
  ASSUME Inv, AutoTypeOK', SlotHeld', LastRun', [AutoNext]_autoVars PROVE Current'
<1>t. AutoTypeOK /\ result \in ResultType
  BY DEF Inv, AutoTypeOK
<1>1. FreshIsCurrent'
  <2> SUFFICES ASSUME NEW s \in Scope, exec'[s].at = "fresh"
               PROVE  /\ exec'[s].run \in 1..MaxRuns
                      /\ result'[exec'[s].run].kept /\ result'[exec'[s].run].scope = s
                      /\ \/ result'[exec'[s].run].wrote = wrote'[s.rev]
                         \/ \E t \in Task : work'[t].at = "writing" /\ work'[t].token.scope.rev = s.rev
    BY DEF FreshIsCurrent
  <2>1. CASE exec'[s] = exec[s]
    <3>1. exec[s].run \in 1..MaxRuns
      BY <2>1 DEF Inv, Current, FreshIsCurrent
    <3> QED
      BY <2>1, <3>1, FreshStays
  <2>2. ASSUME NEW t \in Task, PublishManual(t) \/ PublishPermitted(t), s = work[t].token.scope
        PROVE  /\ exec'[s].run \in 1..MaxRuns
               /\ result'[exec'[s].run].kept /\ result'[exec'[s].run].scope = s
               /\ result'[exec'[s].run].wrote = wrote'[s.rev]
    <3>1. /\ work[t].at = "comparing" /\ wrote' = wrote /\ MayPublish(t)
          /\ exec' = [exec EXCEPT ![work[t].token.scope].at = "fresh"]
          /\ result' = [result EXCEPT ![work[t].run].kept = TRUE]
      BY <2>2 DEF PublishManual, PublishPermitted, Publish
    <3>2. exec'[s].run = work[t].run
      BY <1>t, <2>2, <3>1 DEF MayPublish, AutoTypeOK, ExecType
    <3>3. work[t].run \in 1..MaxRuns
      BY <1>t, <3>1 DEF Inv, LastRun, AtCompare, AutoTypeOK
    <3>4. Launched(t)
      BY <3>1 DEF Inv, Current
    <3> QED
      BY <1>t, <2>2, <3>1, <3>2, <3>3, <3>4 DEF Launched, ResultType
  <2> QED
    BY <1>t, <2>1, <2>2, ExecMoves
<1>h. SlotHeld /\ LastRun /\ TokensBound /\ Current
  BY DEF Inv
<1>2. ASSUME NEW u \in Task, work[u].at \in {"comparing", "applying"}, work'[u] = work[u],
             NEW r \in 1..MaxRuns
      PROVE  result'[r].wrote = result[r].wrote /\ result'[r].scope = result[r].scope /\ UNCHANGED wrote
  <2>1. CASE DeskKeeps
    BY <2>1 DEF DeskKeeps
  <2>2. ASSUME NEW q \in 1..MaxRuns, Forget(q)
        PROVE  result'[r].wrote = result[r].wrote /\ result'[r].scope = result[r].scope /\ UNCHANGED wrote
    BY <1>t, <2>2 DEF Forget, ResultType
  <2>3. ASSUME NEW t \in Task, DeskStep(t) PROVE UNCHANGED <<result, wrote>>
    <3>1. slot = u
      BY <1>2, <1>h DEF SlotHeld, AtRun
    <3>2. t # u
      BY <1>t, <1>2, <2>3, <3>1, TaskMoves DEF AtRun, Task, NoTask
    <3>3. work[t].at \notin AtRun
      BY <1>h, <3>1, <3>2 DEF SlotHeld
    <3> QED
      BY <1>t, <2>3, <3>3, ResultMoves, WroteMoves DEF AtRun
  <2> QED
    BY <2>1, <2>2, <2>3, DeskSteps
<1>3. ASSUME NEW u \in Task, work'[u] # work[u] PROVE DeskStep(u)
  <2>1. work' # work
    BY <1>3
  <2>2. PICK t \in Task : DeskStep(t)
    BY <2>1, DeskSteps DEF DeskKeeps, Forget
  <2> QED
    BY <1>t, <1>3, <2>2, OthersStay
<1>4. ASSUME NEW u \in Task, work'[u].at = "comparing"
      PROVE  /\ result'[work'[u].run].scope = work'[u].token.scope
             /\ result'[work'[u].run].wrote = wrote'[work'[u].token.scope.rev]
  <2>1. CASE work'[u] = work[u]
    <3>1. work[u].run \in 1..MaxRuns /\ Launched(u)
      BY <1>t, <1>h, <1>4, <2>1 DEF LastRun, AtCompare, AutoTypeOK, Current
    <3> QED
      BY <1>2, <1>4, <2>1, <3>1 DEF Launched
  <2>2. CASE work'[u] # work[u]
    <3>1. Launch(u)
      BY <1>t, <1>3, <1>4, <2>2, ToRun
    <3>2. /\ work'[u].run = work[u].run /\ work'[u].token.scope = work[u].token.scope
          /\ work[u].at = "started" /\ wrote' = wrote
      <4> USE DEF AutoTypeOK, WorkType, Token
      <4>1. CASE LaunchManual(u)
        <5>1. PICK n : work' = [work EXCEPT ![u].at = "comparing", ![u].token.permit.epoch = n]
          BY <4>1 DEF LaunchManual
        <5>2. work'[u].run = work[u].run /\ work'[u].token.scope = work[u].token.scope
          BY <1>t, <5>1
        <5> QED
          BY <3>1, <4>1, <5>2 DEF Launch, LaunchManual
      <4>2. CASE LaunchPermitted(u)
        BY <1>t, <3>1, <4>2 DEF Launch, LaunchPermitted, Becomes
      <4> QED
        BY <3>1, <4>1, <4>2 DEF Launch
    <3>3. work[u].run \in 1..MaxRuns
      BY <1>t, <1>h, <3>2 DEF LastRun, AtCompare, AutoTypeOK
    <3>4. result'[work[u].run] = [scope |-> work[u].token.scope, kept |-> FALSE,
                                  epoch |-> exec'[work[u].token.scope].epoch,
                                  wrote |-> wrote[work[u].token.scope.rev]]
      BY <1>t, <3>1, <3>3 DEF Launch, ResultType
    <3> QED
      BY <3>2, <3>4
  <2> QED
    BY <2>1, <2>2
<1>5. ASSUME NEW u \in Task, work'[u].at = "applying"
      PROVE  /\ work'[u].token.run \in 1..MaxRuns
             /\ result'[work'[u].token.run].wrote = wrote'[work'[u].token.scope.rev]
  <2>1. CASE work'[u] = work[u]
    BY <1>2, <1>5, <1>h, <2>1 DEF Current
  <2>2. CASE work'[u] # work[u]
    <3>1. Reserve(u)
      BY <1>t, <1>3, <1>5, <2>2, ToRun
    <3>2. /\ work'[u].token = work[u].token /\ work[u].at = "prepared" /\ MayReserve(u)
          /\ UNCHANGED <<result, wrote>>
      BY <1>t, <1>5, <3>1 DEF Reserve, ReserveInteractive, ReserveUnattended, Reserves, Becomes,
         evidenceVars, AutoTypeOK, WorkType, NoWork
    <3> DEFINE k == work[u].token
    <3>3. /\ result[k.run].scope = k.scope /\ exec[k.scope].at = "fresh" /\ exec[k.scope].run = k.run
          /\ slot = NoTask /\ k.scope \in Scope /\ k.run \in 1..MaxRuns
      <4>1. result[k.run].scope = k.scope /\ k.run \in 1..runs
        BY <1>h, <3>2 DEF TokensBound, Bound, Known
      <4>2. runs \in 0..MaxRuns /\ k.scope \in Scope
        BY <1>t DEF AutoTypeOK, WorkType, Token
      <4> QED
        BY <3>2, <4>1, <4>2 DEF MayReserve, IsFresh
    <3>4. ~ \E t \in Task : work[t].at = "writing"
      BY <1>h, <3>3 DEF SlotHeld, AtRun, Task, NoTask
    <3>5. result[k.run].wrote = wrote[k.scope.rev]
      BY <1>h, <3>3, <3>4 DEF Current, FreshIsCurrent
    <3> QED
      BY <3>2, <3>3, <3>5
  <2> QED
    BY <2>1, <2>2
<1> QED
  BY <1>1, <1>4, <1>5 DEF Current, Launched

-----------------------------------------------------------------------------
(* A permit is of its generation.                                          *)

\* A generation stays, or the next one takes its place.
LEMMA GenerationMoves ==
  ASSUME AutoTypeOK, Linked, [AutoNext]_autoVars
  PROVE  \/ shared'.gen = shared.gen /\ worker'.scope = worker.scope
         \/ shared'.gen = shared.gen + 1
<1> USE DEF jobVars, evidenceVars, scanVars, workerVars, ObserverKeeps, WorkerKeeps
<1>t. shared \in SharedType /\ worker \in WorkerType
  BY DEF AutoTypeOK
<1> DEFINE Stays == shared'.gen = shared.gen /\ worker'.scope = worker.scope
<1>1. ASSUME Terminalize \/ Deactivates, UNCHANGED worker PROVE Stays
  <2>1. CASE Terminalize
    BY <1>t, <1>1, <2>1 DEF Terminalize, SharedType
  <2>2. CASE Deactivates
    BY <1>t, <1>1, <2>2 DEF Deactivates, SharedType
  <2> QED
    BY <1>1, <2>1, <2>2
<1>2. ASSUME NEW g \in Target, StartBegins(g) PROVE Stays \/ shared'.gen = shared.gen + 1
  <2>1. ASSUME NEW h, h.gen = shared.gen + 1, Spawns(h) PROVE shared'.gen = shared.gen + 1
    BY <2>1 DEF Spawns
  <2> QED
    BY <1>1, <1>2, <2>1 DEF StartBegins
<1>3. ASSUME Joined PROVE Stays \/ shared'.gen = shared.gen + 1
  BY <1>3 DEF Joined, Spawns, Linked
<1>4. ASSUME NEW t \in Task, CompareFails(t) PROVE Stays
  BY <1>1, <1>4 DEF CompareFails, Abandons
<1>5. ASSUME ReviewTriggerFails \/ Decline \/ StopBegins \/ StopOnSave PROVE Stays
  BY <1>1, <1>5 DEF ReviewTriggerFails, Decline, StopBegins, StopOnSave
<1>6. ASSUME Observe \/ Dirty \/ Trigger \/ Hear PROVE Stays
  <2>1. CASE Observe
    BY <1>t, <2>1 DEF Observe, SharedType, WorkerType
  <2>2. CASE Dirty \/ Hear
    BY <1>t, <2>2 DEF Dirty, Hear, WorkerType
  <2>3. CASE Trigger
    BY <1>t, <2>3 DEF Trigger, SharedType, WorkerType
  <2> QED
    BY <1>6, <2>1, <2>2, <2>3
<1>7. ASSUME NEW t \in Task,
             \/ PublishPermitted(t) \/ Launch(t) \/ Claim(t) \/ Authorize(t) \/ Reserve(t)
      PROVE  Stays
  <2>1. CASE PublishPermitted(t)
    BY <1>t, <2>1 DEF PublishPermitted, SharedType
  <2>2. CASE Launch(t)
    BY <1>t, <2>2 DEF Launch, LaunchManual, LaunchPermitted, SharedType
  <2>3. CASE Claim(t) \/ Authorize(t)
    BY <1>t, <2>3 DEF Claim, Authorize, SharedType
  <2>4. CASE Reserve(t)
    BY <1>t, <2>4 DEF Reserve, ReserveInteractive, ReserveUnattended, SharedType
  <2> QED
    BY <1>7, <2>1, <2>2, <2>3, <2>4
<1>8. ASSUME ReviewTrigger PROVE Stays
  BY <1>t, <1>8 DEF ReviewTrigger, SharedType
<1>9. ASSUME NEW t \in Task,
             \/ StartCompare(t) \/ PublishManual(t) \/ ApplyRefused(t) \/ StartWrites(t)
             \/ ExpireWritten(t) \/ ApplyEnds(t)
      PROVE  Stays
  BY <1>9 DEF StartCompare, PublishManual, ApplyRefused, StartWrites, ExpireWritten, ApplyEnds
<1>10. ASSUME NEW k \in tokens,
              Approve(k) \/ Expires(k) \/ \E t \in Task : TakeCompare(t, k) \/ TakeApply(t, k)
       PROVE  Stays
  BY <1>10 DEF Approve, Expires, TakeCompare, TakeApply
<1>11. ASSUME \/ \E r \in 1..MaxRuns : ReviewApply(r) \/ Forget(r)
              \/ \E g \in Target : ReviewCompare(g)
              \/ \E new \in Rev \cup {Deleted} : SaveJob(new)
              \/ \E new \in Rev : EditByHand(new)
              \/ ExpireOnSave \/ UNCHANGED autoVars
       PROVE  Stays
  BY <1>11 DEF ReviewApply, Forget, ReviewCompare, SaveJob, EditByHand, ExpireOnSave, autoVars
<1> QED
  BY <1>2, <1>3, <1>4, <1>5, <1>6, <1>7, <1>8, <1>9, <1>10, <1>11 DEF AutoNext

LEMMA BelongsStays ==
  ASSUME AutoTypeOK, Linked, [AutoNext]_autoVars, NEW k, k.permit.gen \in Nat, Belongs(k)
  PROVE  Belongs(k)'
<1>1. shared.gen \in Nat
  BY DEF AutoTypeOK, SharedType
<1> QED
  BY <1>1, GenerationMoves DEF Belongs

\* The ticket's permit is of the generation at work.
LEMMA TicketBelongs ==
  ASSUME AutoTypeOK, Linked, active # NoGeneration, NEW k, k.permit = TicketPermit, k.scope = active.scope
  PROVE  Belongs(k)
<1>1. k.permit.gen = active.gen /\ active.gen = shared.gen /\ active.scope = worker.scope
  BY DEF TicketPermit, Linked
<1> QED
  BY <1>1 DEF Belongs, AutoTypeOK, SharedType

LEMMA TokensBelong ==
  ASSUME AutoTypeOK, Linked, PermitsBelong, [AutoNext]_autoVars, NEW k \in tokens' PROVE Belongs(k)
<1> USE DEF jobVars, evidenceVars, scanVars, workerVars
<1>t. (\A j \in tokens : j \in Token) /\ shared.gen \in Nat /\ work \in WorkType
  BY DEF AutoTypeOK, SharedType
<1>n. ASSUME k.permit = NoPermit PROVE Belongs(k)
  BY <1>t, <1>n DEF NoPermit, Belongs
<1>1. CASE k \in tokens
  BY <1>1 DEF PermitsBelong
<1>2. CASE k \notin tokens /\ IsApply(k)
  <2>1. ASSUME NEW r \in 1..MaxRuns, ReviewApply(r) PROVE Belongs(k)
    BY <1>2, <1>n, <2>1 DEF ReviewApply, Issues
  <2>2. ASSUME NEW j \in tokens, k = [j EXCEPT !.kind = "interactive"] PROVE Belongs(k)
    <3>1. k.permit = j.permit /\ k.scope = j.scope
      BY <1>t, <2>2 DEF Token
    <3> QED
      BY <2>2, <3>1 DEF PermitsBelong, Belongs
  <2>3. ASSUME NEW t \in Task, work[t].at = "claimed", k = work[t].token PROVE Belongs(k)
    BY <2>3 DEF PermitsBelong
  <2> QED
    BY <1>2, <2>1, <2>2, <2>3, TokenMoves
<1>3. CASE k \notin tokens /\ ~IsApply(k)
  <2>1. ASSUME NEW g \in Target, ReviewCompare(g) PROVE Belongs(k)
    <3>1. k = [NoToken EXCEPT !.kind = "compare", !.scope = [rev |-> revision, target |-> g]]
      BY <1>3, <2>1 DEF ReviewCompare, Issues
    <3> QED
      BY <1>n, <3>1 DEF NoToken
  <2>2. ASSUME ReviewTrigger PROVE Belongs(k)
    <3>1. k = [NoToken EXCEPT !.kind = "compare", !.scope = active.scope, !.permit = TicketPermit]
      BY <1>3, <2>2 DEF ReviewTrigger, Issues
    <3>2. k.permit = TicketPermit /\ k.scope = active.scope
      BY <3>1 DEF NoToken
    <3> QED
      BY <2>2, <3>2, TicketBelongs DEF ReviewTrigger
  <2>3. ASSUME NEW j \in tokens, Approve(j) PROVE FALSE
    BY <1>t, <1>3, <2>3 DEF Approve, IsApply, Token
  <2>4. ASSUME NEW t \in Task, Authorize(t) PROVE Belongs(k)
    BY <1>3, <2>4 DEF Authorize, Issues, PermitsBelong
  <2>5. ASSUME NEW r \in 1..MaxRuns, ReviewApply(r) PROVE Belongs(k)
    BY <1>3, <1>n, <2>5 DEF ReviewApply, Issues
  <2>6. ASSUME tokens' \subseteq tokens PROVE FALSE
    BY <1>3, <2>6
  <2>7. ASSUME NEW t \in Task, DeskStep(t), ~Authorize(t) PROVE FALSE
    BY <2>6, <2>7 DEF DeskStep, TakeCompare, TakeApply, StartCompare, Revoked, Launch, PublishManual,
       PublishPermitted, CompareFails, Claim, ApplyRefused, Reserve, StartWrites, ExpireWritten, ApplyEnds
  <2>8. ASSUME \/ \E j \in tokens : Expires(j)
               \/ \E r \in 1..MaxRuns : Forget(r)
               \/ \E g \in Target : StartBegins(g)
               \/ ReviewTriggerFails \/ Decline \/ StopBegins \/ Joined
        PROVE  FALSE
    BY <2>6, <2>8 DEF Expires, Forget, StartBegins, ReviewTriggerFails, Decline, StopBegins, Joined
  <2>9. ASSUME \/ Observe \/ Dirty \/ Trigger \/ Hear
               \/ \E new \in Rev \cup {Deleted} : SaveJob(new)
               \/ StopOnSave \/ ExpireOnSave
               \/ \E new \in Rev : EditByHand(new)
               \/ UNCHANGED autoVars
        PROVE  FALSE
    BY <2>6, <2>9 DEF Observe, Dirty, Trigger, Revoked, Hear, SaveJob, StopOnSave, ExpireOnSave, EditByHand,
       autoVars, ObserverKeeps, WorkerKeeps
  <2> QED
    BY <2>1, <2>2, <2>3, <2>4, <2>5, <2>7, <2>8, <2>9 DEF AutoNext, DeskStep
<1> QED
  BY <1>1, <1>2, <1>3

LEMMA WorkBelongs ==
  ASSUME AutoTypeOK, Linked, PermitsBelong, [AutoNext]_autoVars, NEW t \in Task, work'[t].at # "idle"
  PROVE  Belongs(work'[t].token)
<1>t. work \in WorkType
  BY DEF AutoTypeOK
<1>1. CASE work'[t] = work[t]
  BY <1>1 DEF PermitsBelong
<1>2. CASE work'[t] # work[t]
  <2>1. work' # work
    BY <1>2
  <2>2. PICK u \in Task : DeskStep(u)
    BY <2>1, DeskSteps DEF DeskKeeps, Forget
  <2>3. DeskStep(t)
    BY <1>2, <2>2, OthersStay
  <2>4. ASSUME NEW k \in tokens, TakeCompare(t, k) \/ TakeApply(t, k) PROVE Belongs(work'[t].token)
    <3>1. work'[t].token = k
      BY <1>t, <2>4 DEF TakeCompare, TakeApply, WorkType
    <3> QED
      BY <3>1 DEF PermitsBelong
  <2>5. ASSUME Claim(t) PROVE Belongs(work'[t].token)
    <3>1. work'[t].token = [kind |-> "auto", scope |-> active.scope, run |-> shared.ticket.run,
                            permit |-> TicketPermit, saves |-> left["save"]]
      BY <1>t, <2>5 DEF Claim, WorkType
    <3> QED
      BY <2>5, <3>1, TicketBelongs DEF Claim
  <2>6. ASSUME PublishManual(t) \/ PublishPermitted(t) \/ CompareFails(t) \/ ApplyEnds(t)
               \/ Authorize(t) \/ ApplyRefused(t)
        PROVE  FALSE
    BY <1>t, <2>6 DEF PublishManual, PublishPermitted, CompareFails, ApplyEnds, EndsRun, Authorize,
       ApplyRefused, NoWork, WorkType
  <2>7. ASSUME StartCompare(t) \/ Launch(t) \/ Reserve(t) \/ StartWrites(t) \/ ExpireWritten(t)
        PROVE  /\ work[t].at # "idle" /\ work'[t].token.scope = work[t].token.scope
               /\ work'[t].token.permit.gen = work[t].token.permit.gen
    <3>1. CASE StartCompare(t)
      BY <1>t, <3>1 DEF StartCompare, WorkType
    <3>2. CASE Launch(t)
      <4>1. CASE LaunchManual(t)
        <5>1. work[t].at = "started" /\ \E n : work' = [work EXCEPT ![t].at = "comparing", ![t].token.permit.epoch = n]
          BY <4>1 DEF LaunchManual
        <5> QED
          BY <1>t, <5>1 DEF WorkType, Token, Permit
      <4>2. CASE LaunchPermitted(t)
        BY <1>t, <4>2 DEF LaunchPermitted, Becomes, WorkType
      <4> QED
        BY <3>2, <4>1, <4>2 DEF Launch
    <3>3. CASE Reserve(t)
      BY <1>t, <1>2, <3>3 DEF Reserve, ReserveInteractive, ReserveUnattended, Reserves, Becomes, WorkType, NoWork
    <3>4. CASE StartWrites(t) \/ ExpireWritten(t)
      BY <1>t, <3>4 DEF StartWrites, ExpireWritten, Becomes, WorkType
    <3> QED
      BY <2>7, <3>1, <3>2, <3>3, <3>4
  <2>8. CASE StartCompare(t) \/ Launch(t) \/ Reserve(t) \/ StartWrites(t) \/ ExpireWritten(t)
    BY <2>7, <2>8 DEF PermitsBelong, Belongs
  <2> QED
    BY <2>3, <2>4, <2>5, <2>6, <2>8 DEF DeskStep
<1> QED
  BY <1>1, <1>2

LEMMA PermitsStep ==
  ASSUME AutoTypeOK, AutoTypeOK', Linked, PermitsBelong, [AutoNext]_autoVars PROVE PermitsBelong'
<1>t. \A k \in Token : k.permit.gen \in Nat
  BY DEF Token, Permit
<1>1. ASSUME NEW k \in tokens' PROVE Belongs(k)'
  BY <1>t, <1>1, TokensBelong, BelongsStays DEF AutoTypeOK
<1>2. ASSUME NEW t \in Task, work'[t].at # "idle", NEW k, k = work'[t].token PROVE Belongs(k)'
  <2>1. k \in Token
    BY <1>2 DEF AutoTypeOK, WorkType
  <2> QED
    BY <1>t, <1>2, <2>1, WorkBelongs, BelongsStays
<1>3. \A t \in Task : work'[t].at # "idle" => \A k : k = work'[t].token => Belongs(k)'
  BY <1>2
<1> QED
  BY <1>1, <1>3 DEF PermitsBelong, Belongs

-----------------------------------------------------------------------------
(* The ticket is the last trigger, and a newer one finds nothing fresh.    *)

LEMMA TicketStep ==
  ASSUME AutoTypeOK, AutoTypeOK', TicketIsLast, [AutoNext]_autoVars PROVE TicketIsLast'
<1> USE DEF TicketIsLast, Pending
<1>t. /\ shared \in SharedType /\ worker \in WorkerType
      /\ shared.ticket.id \in Nat /\ worker.id \in Nat
  BY DEF AutoTypeOK, SharedType, TicketType, WorkerType
<1>1. CASE shared'.ticket.at = "idle" /\ (worker'.at \notin {"observed", "dirtied"} \/ UNCHANGED worker)
  BY <1>1
<1>2. CASE UNCHANGED <<shared, active>> /\ UNCHANGED worker
  BY <1>2
<1>3. CASE UNCHANGED <<shared, active>> /\ Dirty
  <2>1. worker.at = "observed" /\ worker'.at = "dirtied" /\ worker'.id = worker.id
    BY <1>t, <1>3 DEF Dirty, WorkerType
  <2> QED
    BY <1>3, <2>1
<1>4. CASE UNCHANGED <<shared, active>> /\ Hear
  <2>1. /\ worker.at \notin {"observed", "dirtied"} /\ worker'.at \notin {"observed", "dirtied"}
        /\ worker'.id = worker.id
    BY <1>t, <1>4 DEF Hear, WorkerType
  <2> QED
    BY <1>4, <2>1
<1>5. CASE /\ UNCHANGED <<shared, active>> /\ Observe /\ shared.ticket.at \notin Pending
           /\ worker' = [worker EXCEPT !.at = "observed", !.id = worker.id + 1]
  <2>1. worker.at = "idle" /\ worker'.at = "observed" /\ worker'.id = worker.id + 1
    BY <1>t, <1>5 DEF Observe, WorkerType
  <2> QED
    BY <1>5, <2>1
<1>6. CASE UNCHANGED <<shared, active>> /\ worker'.at = "off" /\ ~shared.live
  BY <1>6
<1>7. CASE /\ shared'.live /\ shared'.ticket.id = worker.id
           /\ shared'.ticket.at = "awaiting" /\ worker'.at = "waiting" /\ worker'.id = worker.id
  BY <1>7
<1>8. CASE /\ shared.ticket.at = "running" /\ shared'.ticket.at = "completed"
           /\ shared'.ticket.id = shared.ticket.id /\ shared'.live = shared.live /\ UNCHANGED worker
  BY <1>8
<1>9. CASE TicketKept /\ \/ /\ shared.ticket.at \in {"awaiting", "permitted"}
                            /\ shared'.ticket.at \in {"permitted", "running"}
                         \/ /\ shared.ticket.at \in {"completed", "claimed"}
                            /\ shared'.ticket.at \in {"claimed", "authorized"}
  BY <1>9 DEF TicketKept
<1> HIDE DEF TicketIsLast, Pending
<1> QED
  BY <1>1, <1>2, <1>3, <1>4, <1>5, <1>6, <1>7, <1>8, <1>9, TicketMoves

\* Evidence that is not the fresh one of a run already published never becomes it.
LEMMA StaleStays ==
  ASSUME Inv, [AutoNext]_autoVars, UNCHANGED worker, NEW run, Known(run), StaleRun(run)
  PROVE  StaleRun(run)'
<1>t. AutoTypeOK /\ LastRun
  BY DEF Inv
<1> DEFINE s == worker.scope
<1>1. SUFFICES ASSUME exec'[s].at = "fresh" /\ exec'[s].run = run PROVE FALSE
  BY DEF StaleRun
<1>2. s \in Scope
  BY <1>t DEF AutoTypeOK, WorkerType
<1>3. exec'[s] # exec[s]
  BY <1>1 DEF StaleRun
<1> HIDE DEF s
<1>4. PICK t \in Task : (PublishManual(t) \/ PublishPermitted(t)) /\ s = work[t].token.scope
  BY <1>t, <1>1, <1>2, <1>3, ExecMoves
<1>5. /\ work[t].at = "comparing" /\ exec[s].run = work[t].run
      /\ exec' = [exec EXCEPT ![s].at = "fresh"]
  BY <1>4 DEF PublishManual, PublishPermitted, MayPublish, Publish
<1>6. exec'[s].run = work[t].run
  BY <1>t, <1>2, <1>5 DEF AutoTypeOK, ExecType
<1> QED
  BY <1>t, <1>1, <1>5, <1>6 DEF LastRun, Known, AtCompare

LEMMA StaleStep ==
  ASSUME Inv, AutoTypeOK', [AutoNext]_autoVars PROVE DirtiedIsStale'
<1>t. AutoTypeOK /\ TokensBound /\ DirtiedIsStale /\ TicketIsLast
  BY DEF Inv
<1> SUFFICES ASSUME worker'.at = "dirtied" PROVE DirtiedIsStale'
  BY DEF DirtiedIsStale
<1>1. CASE Dirty
  <2>1. worker'.scope = worker.scope /\ worker.scope \in Scope
    BY <1>t, <1>1 DEF Dirty, AutoTypeOK, WorkerType
  <2>2. exec'[worker.scope].at = "awaiting"
    BY <1>t, <1>1, <2>1 DEF Dirty, Begun, AutoTypeOK, ExecType
  <2> QED
    BY <2>1, <2>2 DEF DirtiedIsStale, StaleRun
<1>2. CASE UNCHANGED worker
  <2>1. ASSUME NEW k \in tokens', k.kind = "auto" PROVE StaleRun(k.run)'
    <3>1. CASE k \in tokens
      BY <1>2, <1>t, <2>1, <3>1, StaleStays DEF DirtiedIsStale, TokensBound, Bound, IsApply
    <3>2. ASSUME NEW t \in Task, work[t].at = "claimed", k = work[t].token PROVE StaleRun(k.run)'
      BY <1>2, <1>t, <2>1, <3>2, StaleStays DEF DirtiedIsStale, TokensBound, Bound
    <3> QED
      BY <1>t, <2>1, <3>1, <3>2, TokenMoves DEF IsApply
  <2>2. ASSUME NEW t \in Task, work'[t].at \in {"claimed", "prepared"}, work'[t].token.kind = "auto",
               NEW run, run = work'[t].token.run
        PROVE  StaleRun(run)'
    <3>1. CASE work'[t] = work[t]
      BY <1>2, <1>t, <2>2, <3>1, StaleStays DEF DirtiedIsStale, TokensBound, Bound
    <3>2. ASSUME Claim(t), work'[t].token = [kind |-> "auto", scope |-> active.scope,
                   run |-> shared.ticket.run, permit |-> TicketPermit, saves |-> left["save"]]
          PROVE  StaleRun(run)'
      BY <1>2, <1>t, <2>2, <3>2, StaleStays DEF DirtiedIsStale, TokensBound, Bound, Claim
    <3>3. ASSUME NEW k \in tokens, work'[t].token = k PROVE StaleRun(run)'
      BY <1>2, <1>t, <2>2, <3>3, StaleStays DEF DirtiedIsStale, TokensBound, Bound, IsApply
    <3> QED
      BY <1>t, <2>2, <3>1, <3>2, <3>3, WorkMoves
  <2>3. ASSUME shared'.ticket.at = "completed", active' # NoGeneration, NEW run, run = shared'.ticket.run
        PROVE  StaleRun(run)'
    <3>1. CASE UNCHANGED <<shared, active>>
      BY <1>2, <1>t, <2>3, <3>1, StaleStays DEF DirtiedIsStale, TokensBound, Bound
    <3>2. shared.ticket.at \notin Pending
      BY <1>2, <1>t DEF TicketIsLast
    <3> QED
      BY <1>t, <1>2, <2>3, <3>1, <3>2, TicketMoves DEF Pending
  <2>4. \A t \in Task : work'[t].at \in {"claimed", "prepared"} /\ work'[t].token.kind = "auto" =>
          \A run : run = work'[t].token.run => StaleRun(run)'
    BY <2>2
  <2>5. shared'.ticket.at = "completed" /\ active' # NoGeneration =>
          \A run : run = shared'.ticket.run => StaleRun(run)'
    BY <2>3
  <2> QED
    BY <2>1, <2>4, <2>5 DEF DirtiedIsStale, StaleRun
<1>3. CASE ~Dirty /\ worker' # worker
  <2>1. ASSUME Hear PROVE FALSE
    BY <1>t, <2>1 DEF Hear, AutoTypeOK, WorkerType
  <2>2. worker' # [worker EXCEPT !.at = "observed", !.id = worker.id + 1]
    BY <1>t DEF AutoTypeOK, WorkerType
  <2> QED
    BY <1>t, <1>3, <2>1, <2>2, TicketMoves DEF TicketKept
<1> QED
  BY <1>1, <1>2, <1>3
-----------------------------------------------------------------------------
(* The theorems.                                                           *)

LEMMA InvStep == ASSUME Inv, [AutoNext]_autoVars PROVE Inv'
<1>1. AutoTypeOK'
  BY TypeStep DEF Inv
<1>2. Linked'
  BY <1>1, LinkedStep DEF Inv
<1>3. SlotHeld'
  BY SlotStep DEF Inv
<1>4. LastRun'
  BY <1>1, <1>3, LastRunStep DEF Inv
<1>5. TokensBound'
  BY <1>1, <1>3, <1>4, BoundStep DEF Inv
<1>6. Current'
  BY <1>1, <1>3, <1>4, CurrentStep
<1>7. PermitsBelong'
  BY <1>1, PermitsStep DEF Inv
<1>8. TicketIsLast'
  BY <1>1, TicketStep DEF Inv
<1>9. DirtiedIsStale'
  BY <1>1, StaleStep
<1> QED
  BY <1>1, <1>2, <1>3, <1>4, <1>5, <1>6, <1>7, <1>8, <1>9 DEF Inv

\* The invariant the theorems rest on holds in every state of the desktop's AutoScan.
THEOREM InvariantHolds == AutoSpec => []Inv
<1>1. AutoInit => Inv
  BY Initially
<1>2. Inv /\ [AutoNext]_autoVars => Inv'
  BY InvStep
<1> QED
  BY <1>1, <1>2, PTL DEF AutoSpec

\* Every variable of the controller, its worker and the commands stays in its range.
THEOREM TypeCorrect == AutoSpec => []AutoTypeOK
<1>1. Inv => AutoTypeOK
  BY DEF Inv
<1> QED
  BY <1>1, InvariantHolds, PTL

\* An apply writes only what a compare found that began after the last apply of the same
\* revision wrote (slot, reservation and the guard's expiry in the compare and apply commands).
THEOREM ComparedAfterWritesAlways == AutoSpec => ComparedAfterWrites
<1> DEFINE Fresh ==
      \A t \in Task : work[t].at = "applying" /\ work'[t].at = "writing" =>
        result[work[t].token.run].wrote = wrote[work[t].token.scope.rev]
<1>1. Inv => Fresh
  BY DEF Inv, Current
<1>2. Inv /\ [AutoNext]_autoVars => [Fresh]_autoVars
  BY <1>1
<1> QED
  BY <1>2, InvariantHolds, PTL DEF AutoSpec, ComparedAfterWrites

\* An unattended apply starts for the latest ticket of the live generation, with no newer
\* trigger acted on (authorize_autoscan_apply, reserve and publish_trigger).
THEOREM UnattendedCurrent == AutoSpec => UnattendedIsCurrent
<1> DEFINE Latest ==
      \A t \in Task : Starts(t) /\ work[t].token.kind = "auto" =>
        /\ shared.live /\ shared.gen = work[t].token.permit.gen
        /\ worker.id = IF worker.at = "observed" THEN work[t].token.permit.id + 1
                       ELSE work[t].token.permit.id
<1>1. ASSUME Inv, AutoNext PROVE Latest
  <2> SUFFICES ASSUME NEW t \in Task, Starts(t), work[t].token.kind = "auto"
               PROVE  /\ shared.live /\ shared.gen = work[t].token.permit.gen
                      /\ worker.id = IF worker.at = "observed" THEN work[t].token.permit.id + 1
                                     ELSE work[t].token.permit.id
    OBVIOUS
  <2>h. AutoTypeOK /\ Linked /\ PermitsBelong /\ TicketIsLast /\ DirtiedIsStale /\ TokensBound
    BY <1>1 DEF Inv
  <2>s. work[t].at = "prepared" /\ work'[t].at = "applying" /\ work'[t] # work[t]
    BY DEF Starts
  <2>1. DeskStep(t)
    <3>1. PICK u \in Task : DeskStep(u)
      BY <1>1, <2>s, DeskSteps DEF DeskKeeps, Forget
    <3> QED
      BY <2>h, <2>s, <3>1, OthersStay
  <2>2. Reserve(t)
    BY <2>1, <2>h, <2>s, ToRun
  <2>3. TicketIs("authorized", work[t].token.permit) /\ MayReserve(t)
    BY <2>2, <2>h, <2>s DEF Reserve, ReserveInteractive, ReserveUnattended, AutoTypeOK, WorkType, NoWork
  <2>4. /\ active.gen = work[t].token.permit.gen /\ active.gen = shared.gen /\ active.gen # 0
        /\ shared.ticket.id = work[t].token.permit.id /\ shared.ticket.at = "authorized"
    BY <2>3, <2>h DEF TicketIs, Binds, Linked
  <2>5. work[t].token.scope = worker.scope
    BY <2>h, <2>s, <2>4 DEF PermitsBelong, Belongs
  <2>6. ~StaleRun(work[t].token.run)
    BY <2>3, <2>5, <2>h, <2>s DEF MayReserve, IsFresh, StaleRun, TokensBound, Bound
  <2>7. worker.at # "dirtied"
    BY <2>6, <2>h, <2>s DEF DirtiedIsStale
  <2> QED
    BY <2>h, <2>4, <2>7 DEF TicketIsLast
<1>2. Inv /\ [AutoNext]_autoVars => [Latest]_autoVars
  BY <1>1
<1> QED
  BY <1>2, InvariantHolds, PTL DEF AutoSpec, UnattendedIsCurrent
-----------------------------------------------------------------------------
(* Nobody is left waiting, and a save takes every authority back.           *)

\* The gate is held only between two generations, and a generation that is gone has no worker
\* once the gate is free.
Gated ==
  /\ shared.live => active # NoGeneration
  /\ ~GateFree => active = NoGeneration
  /\ active = NoGeneration /\ GateFree => worker.at = "off"

ByTicket(s) ==
  /\ active # NoGeneration /\ active.scope = s
  /\ shared.ticket.at \in Pending /\ shared.ticket.epoch = exec[s].epoch
ByWorker(s) == worker.at = "dirtied" /\ worker.scope = s /\ worker.epoch = exec[s].epoch
ByPerson(s) ==
  \E t \in Task : /\ work[t].at = "comparing" /\ work[t].token.scope = s
                  /\ work[t].token.permit.gen = 0 /\ work[t].token.permit.epoch = exec[s].epoch

\* A compare for a permit needs no place of its own here: the ticket stays pending as long.
Attended == \A s \in Scope : exec[s].at \in Unfinished => ByTicket(s) \/ ByWorker(s) \/ ByPerson(s)

\* What may still start an apply was issued since the program last changed the job.
SavesKept ==
  /\ \A k \in tokens : IsApply(k) => k.saves = left["save"]
  /\ \A t \in Task : work[t].at \in {"claimed", "prepared"} => work[t].token.saves = left["save"]

Watchful == Gated /\ Attended /\ WorkerIsTold /\ SavesKept

LEMMA WatchfulInitially == AutoInit => Watchful
<1> SUFFICES ASSUME AutoInit PROVE Watchful OBVIOUS
<1>1. Gated
  BY DEF AutoInit, Gated, GateFree
<1>2. Attended
  BY DEF AutoInit, Attended, NoExecution, Unfinished
<1>3. WorkerIsTold
  BY DEF AutoInit, WorkerIsTold
<1>4. SavesKept
  BY DEF AutoInit, SavesKept, NoWork
<1> QED
  BY <1>1, <1>2, <1>3, <1>4 DEF Watchful

\* What a step does to the gate: nothing, a generation goes, comes, or is not followed.
LEMMA GateMoves ==
  ASSUME AutoTypeOK, Linked, [AutoNext]_autoVars
  PROVE  \/ /\ UNCHANGED <<active, gate>> /\ (shared'.live => shared.live)
            /\ worker.at = "off" => worker'.at = "off"
         \/ /\ active # NoGeneration /\ active' = NoGeneration /\ ~shared'.live
            /\ GateFree /\ gate'.for # "nobody" /\ UNCHANGED worker
         \/ /\ (active = NoGeneration /\ GateFree) \/ (worker.at = "off" /\ ~GateFree)
            /\ active' # NoGeneration /\ gate'.for = "nobody"
            /\ worker'.at = "idle"
         \/ /\ ~GateFree /\ worker.at = "off" /\ gate'.for = "nobody"
            /\ UNCHANGED <<active, shared, worker>>
<1> USE DEF jobVars, evidenceVars, scanVars, workerVars, ObserverKeeps, WorkerKeeps
<1>t. shared \in SharedType /\ worker \in WorkerType /\ gate \in GateType
  BY DEF AutoTypeOK
<1> DEFINE Stays == /\ UNCHANGED <<active, gate>> /\ (shared'.live => shared.live)
                    /\ worker.at = "off" => worker'.at = "off"
           Goes == /\ active # NoGeneration /\ active' = NoGeneration /\ ~shared'.live
                   /\ GateFree /\ gate'.for # "nobody" /\ UNCHANGED worker
           Comes == /\ (active = NoGeneration /\ GateFree) \/ (worker.at = "off" /\ ~GateFree)
                    /\ active' # NoGeneration /\ gate'.for = "nobody"
                    /\ worker'.at = "idle"
<1>1. ASSUME Terminalize PROVE shared'.live => shared.live
  BY <1>1, <1>t DEF Terminalize, SharedType
<1>2. ASSUME Deactivates PROVE active' = NoGeneration /\ ~shared'.live
  BY <1>2, <1>t DEF Deactivates, SharedType
<1>3. ASSUME NEW g \in Generation, Spawns(g) PROVE active' # NoGeneration /\ worker'.at = "idle"
  BY <1>3 DEF Spawns, Generation, Scope
<1>4. ASSUME NEW p \in Target, StartBegins(p) PROVE Goes \/ Comes
  <2> DEFINE g == [gen |-> shared.gen + 1, scope |-> [rev |-> revision, target |-> p],
                   auto |-> revision \in Unattended]
  <2>1. g \in Generation
    BY <1>4, <1>t DEF StartBegins, Generation, Scope, SharedType, AutoTypeOK
  <2> HIDE DEF g
  <2>2. CASE active = NoGeneration
    <3>1. GateFree /\ Spawns(g) /\ UNCHANGED gate
      BY <1>4, <2>2 DEF StartBegins, g
    <3>2. active' # NoGeneration /\ worker'.at = "idle"
      BY <1>3, <2>1, <3>1
    <3> QED
      BY <2>2, <3>1, <3>2 DEF GateFree
  <2>3. CASE active # NoGeneration
    <3>1. GateFree /\ Deactivates /\ gate'.for = "start" /\ UNCHANGED worker
      BY <1>4, <2>3 DEF StartBegins
    <3> QED
      BY <1>2, <2>3, <3>1
  <2> QED
    BY <2>2, <2>3
<1>5. ASSUME StopBegins \/ StopOnSave PROVE Goes \/ Stays
  BY <1>2, <1>5 DEF StopBegins, StopOnSave
<1>6. ASSUME Joined
      PROVE  \/ Comes
             \/ /\ ~GateFree /\ worker.at = "off" /\ gate'.for = "nobody"
                /\ UNCHANGED <<active, shared, worker>>
  <2>1. CASE gate.for = "start"
    <3>1. gate.next \in Generation /\ Spawns(gate.next)
      BY <1>6, <2>1 DEF Joined, Linked
    <3> QED
      BY <1>3, <1>6, <3>1 DEF Joined
  <2>2. CASE gate.for # "start"
    BY <1>6, <2>2 DEF Joined
  <2> QED
    BY <2>1, <2>2
<1>7. ASSUME ReviewTriggerFails \/ Decline PROVE Stays
  BY <1>1, <1>7 DEF ReviewTriggerFails, Decline
<1>8. ASSUME NEW t \in Task, CompareFails(t) PROVE Stays
  BY <1>1, <1>8 DEF CompareFails, Abandons
<1>9. ASSUME Observe \/ Dirty \/ Trigger \/ Hear PROVE Stays
  <2>1. CASE Observe
    BY <1>t, <2>1 DEF Observe, SharedType, WorkerType
  <2>2. CASE Dirty \/ Hear
    BY <1>t, <2>2 DEF Dirty, Hear, WorkerType
  <2>3. CASE Trigger
    BY <1>t, <2>3 DEF Trigger, SharedType, WorkerType
  <2> QED
    BY <1>9, <2>1, <2>2, <2>3
<1>10. ASSUME NEW t \in Task, Launch(t) \/ PublishPermitted(t) \/ Claim(t) \/ Authorize(t) \/ Reserve(t)
       PROVE  Stays
  <2>1. CASE Launch(t)
    BY <1>t, <2>1 DEF Launch, LaunchManual, LaunchPermitted, SharedType
  <2>2. CASE PublishPermitted(t)
    BY <1>t, <2>2 DEF PublishPermitted, SharedType
  <2>3. CASE Claim(t) \/ Authorize(t)
    BY <1>t, <2>3 DEF Claim, Authorize, SharedType
  <2>4. CASE Reserve(t)
    BY <1>t, <2>4 DEF Reserve, ReserveInteractive, ReserveUnattended, SharedType
  <2> QED
    BY <1>10, <2>1, <2>2, <2>3, <2>4
<1>11. ASSUME ReviewTrigger PROVE Stays
  BY <1>t, <1>11 DEF ReviewTrigger, SharedType
<1>12. ASSUME NEW t \in Task,
              \/ StartCompare(t) \/ PublishManual(t) \/ ApplyRefused(t) \/ StartWrites(t)
              \/ ExpireWritten(t) \/ ApplyEnds(t)
       PROVE  Stays
  BY <1>12 DEF StartCompare, PublishManual, ApplyRefused, StartWrites, ExpireWritten, ApplyEnds
<1>13. ASSUME NEW k \in tokens,
              Approve(k) \/ Expires(k) \/ \E t \in Task : TakeCompare(t, k) \/ TakeApply(t, k)
       PROVE  Stays
  BY <1>13 DEF Approve, Expires, TakeCompare, TakeApply
<1>14. ASSUME \/ \E r \in 1..MaxRuns : ReviewApply(r) \/ Forget(r)
              \/ \E g \in Target : ReviewCompare(g)
              \/ \E new \in Rev \cup {Deleted} : SaveJob(new)
              \/ \E new \in Rev : EditByHand(new)
              \/ ExpireOnSave \/ UNCHANGED autoVars
       PROVE  Stays
  BY <1>14 DEF ReviewApply, Forget, ReviewCompare, SaveJob, EditByHand, ExpireOnSave, autoVars
<1> QED
  BY <1>4, <1>5, <1>6, <1>7, <1>8, <1>9, <1>10, <1>11, <1>12, <1>13, <1>14 DEF AutoNext

LEMMA GatedStep == ASSUME AutoTypeOK, Linked, Gated, [AutoNext]_autoVars PROVE Gated'
  BY GateMoves DEF Gated, GateFree

-----------------------------------------------------------------------------
(* An open verification.                                                   *)

\* A verification is opened by the worker or by a person's compare; every other step only
\* ends some.
OnlyEnds ==
  \A s \in Scope : exec'[s].at \in Unfinished => exec[s].at \in Unfinished /\ exec'[s].epoch = exec[s].epoch

LEMMA OpenMoves ==
  ASSUME AutoTypeOK, [AutoNext]_autoVars
  PROVE  OnlyEnds \/ Dirty \/ \E t \in Task : Launch(t) /\ LaunchManual(t)
<1> USE DEF jobVars, evidenceVars, scanVars, workerVars, ObserverKeeps, WorkerKeeps, OnlyEnds
<1>t. exec \in ExecType
  BY DEF AutoTypeOK
<1>1. ASSUME NEW p, NEW e, exec' = Ended(p, e) PROVE OnlyEnds
  BY <1>1, <1>t DEF Ended, ExecType, Unfinished
<1>2. ASSUME NEW revisions, exec' = Expired(exec, revisions) PROVE OnlyEnds
  BY <1>2, <1>t DEF Expired, ExecType, Unfinished
<1>3. ASSUME Terminalize \/ Deactivates PROVE OnlyEnds
  BY <1>1, <1>3 DEF Terminalize, Deactivates
<1>4. ASSUME NEW t \in Task, Launch(t), ~LaunchManual(t) PROVE OnlyEnds
  <2>1. LaunchPermitted(t)
    BY <1>4 DEF Launch
  <2> QED
    BY <1>t, <2>1 DEF LaunchPermitted, CanLaunch, ExecType, Unfinished
<1>5. ASSUME NEW t \in Task, PublishManual(t) \/ PublishPermitted(t) PROVE OnlyEnds
  BY <1>5, <1>t DEF PublishManual, PublishPermitted, Publish, ExecType, Unfinished
<1>6. ASSUME NEW t \in Task, CompareFails(t) \/ ExpireWritten(t) PROVE OnlyEnds
  BY <1>1, <1>2, <1>3, <1>6 DEF CompareFails, Abandons, ExpireWritten
<1>7. ASSUME NEW t \in Task, DeskStep(t), ~Launch(t), ~PublishManual(t), ~PublishPermitted(t),
             ~CompareFails(t), ~ExpireWritten(t)
      PROVE  OnlyEnds
  BY <1>7 DEF DeskStep, TakeCompare, TakeApply, StartCompare, Claim, Authorize, ApplyRefused, Reserve,
       StartWrites, ApplyEnds
<1>8. ASSUME \/ \E k \in tokens : Approve(k) \/ Expires(k)
             \/ \E r \in 1..MaxRuns : ReviewApply(r)
             \/ \E g \in Target : ReviewCompare(g) \/ StartBegins(g)
             \/ ReviewTrigger \/ ReviewTriggerFails \/ Decline \/ StopBegins \/ Joined
      PROVE  OnlyEnds
  BY <1>3, <1>8 DEF Approve, Expires, ReviewApply, ReviewCompare, StartBegins, ReviewTrigger,
       ReviewTriggerFails, Decline, StopBegins, Joined
<1>9. ASSUME NEW r \in 1..MaxRuns, Forget(r) PROVE OnlyEnds
  BY <1>9, <1>t DEF Forget, NoExecution, ExecType, Unfinished
<1>10. ASSUME Observe \/ Trigger \/ Hear PROVE OnlyEnds
  BY <1>1, <1>10 DEF Observe, Trigger, Hear
<1>11. ASSUME \/ \E new \in Rev \cup {Deleted} : SaveJob(new)
              \/ StopOnSave \/ ExpireOnSave
              \/ \E new \in Rev : EditByHand(new)
              \/ UNCHANGED autoVars
       PROVE  OnlyEnds
  BY <1>2, <1>3, <1>11 DEF SaveJob, StopOnSave, ExpireOnSave, EditByHand, autoVars
<1> HIDE DEF OnlyEnds
<1> QED
  BY <1>4, <1>5, <1>6, <1>7, <1>8, <1>9, <1>10, <1>11 DEF AutoNext, DeskStep

\* Whoever lets a verification go ends it: a person's compare, and the ticket.
LEMMA PeopleStay ==
  ASSUME AutoTypeOK, [AutoNext]_autoVars, NEW t \in Task, work[t].at = "comparing",
         work[t].token.permit.gen = 0, exec[work[t].token.scope].epoch = work[t].token.permit.epoch
  PROVE  work'[t] = work[t] \/ exec'[work[t].token.scope].at \notin Unfinished
<1>t. exec \in ExecType /\ work[t].token.scope \in Scope
  BY DEF AutoTypeOK, WorkType, Token
<1>1. CASE DeskKeeps \/ \E r \in 1..MaxRuns : Forget(r)
  BY <1>1 DEF DeskKeeps, Forget
<1>2. ASSUME NEW u \in Task, DeskStep(u), u # t PROVE work'[t] = work[t]
  BY <1>2, OthersStay
<1>3. ASSUME DeskStep(t) PROVE exec'[work[t].token.scope].at \notin Unfinished
  <2>1. PublishManual(t) \/ CompareFails(t)
    BY <1>3 DEF DeskStep, TakeCompare, TakeApply, Unused, NoWork, StartCompare, Launch, LaunchManual,
       LaunchPermitted, PublishPermitted, Claim, Authorize, ApplyRefused, Reserve, ReserveInteractive,
       ReserveUnattended, StartWrites, ExpireWritten, ApplyEnds
  <2>2. CASE PublishManual(t)
    BY <1>t, <2>2 DEF PublishManual, Publish, ExecType, Unfinished
  <2>3. CASE CompareFails(t)
    <3>1. exec' = Ended(work[t].token.scope, work[t].token.permit.epoch)
      BY <2>3 DEF CompareFails
    <3> QED
      BY <1>t, <3>1 DEF Ended, Terminates, ExecType, Unfinished
  <2> QED
    BY <2>1, <2>2, <2>3
<1> QED
  BY <1>1, <1>2, <1>3, DeskSteps

LEMMA TicketStays ==
  ASSUME AutoTypeOK, Linked, PermitsBelong, TicketIsLast, Gated, [AutoNext]_autoVars,
         NEW s \in Scope, ByTicket(s)
  PROVE  \/ exec'[s].at \notin Unfinished
         \/ /\ UNCHANGED active /\ shared'.ticket.at \in Pending
            /\ shared'.ticket.epoch = shared.ticket.epoch
<1> USE DEF jobVars, evidenceVars, scanVars, workerVars, ObserverKeeps, WorkerKeeps
<1>t. exec \in ExecType /\ shared \in SharedType /\ worker \in WorkerType
  BY DEF AutoTypeOK
<1>h. /\ active # NoGeneration /\ active.scope = s /\ worker.scope = s /\ active.gen = shared.gen
      /\ active.gen # 0 /\ shared.ticket.at \in Pending /\ exec[s].epoch = shared.ticket.epoch
      /\ GateFree /\ worker.at # "dirtied"
  BY DEF ByTicket, Linked, Gated, TicketIsLast
<1> DEFINE Over == exec'[s].at \notin Unfinished
           Still == /\ UNCHANGED active /\ shared'.ticket.at \in Pending
                    /\ shared'.ticket.epoch = shared.ticket.epoch
<1>1. ASSUME exec' = Ended(s, shared.ticket.epoch) PROVE Over
  BY <1>1, <1>t, <1>h DEF Ended, Terminates, ExecType, Unfinished
<1>2. ASSUME Terminalize \/ Deactivates PROVE Over
  BY <1>1, <1>2, <1>h DEF Terminalize, Deactivates
<1>3. ASSUME NEW t \in Task, CompareFails(t) PROVE Over \/ Still
  BY <1>2, <1>3, <1>h DEF CompareFails, Abandons
<1>4. ASSUME ReviewTriggerFails \/ Decline \/ StopBegins \/ StopOnSave
             \/ \E g \in Target : StartBegins(g)
      PROVE  Over \/ Still
  BY <1>2, <1>4, <1>h DEF ReviewTriggerFails, Decline, StopBegins, StopOnSave, StartBegins
<1>5. ~Joined /\ ~Trigger
  BY <1>h DEF Joined, Trigger
<1>6. ASSUME Observe PROVE Over \/ Still
  BY <1>1, <1>6, <1>h DEF Observe
<1>7. ASSUME NEW t \in Task, PublishPermitted(t) PROVE Over
  <2>1. work[t].at # "idle" /\ work[t].token.permit.gen = active.gen
    BY <1>7 DEF PublishPermitted, OwnsPermit, Binds
  <2>2. work[t].token.scope = s
    BY <1>h, <2>1 DEF PermitsBelong, Belongs
  <2> QED
    BY <1>7, <1>t, <2>2 DEF PublishPermitted, Publish, ExecType, Unfinished
<1>8. ASSUME NEW t \in Task, Launch(t) PROVE Still
  BY <1>8, <1>t, <1>h DEF Launch, LaunchManual, LaunchPermitted, SharedType, TicketType, Pending
<1>9. ASSUME ReviewTrigger PROVE Still
  BY <1>9, <1>t, <1>h DEF ReviewTrigger, SharedType, TicketType, Pending
<1>10. ASSUME NEW t \in Task, Claim(t) \/ Authorize(t) PROVE FALSE
  BY <1>10, <1>h DEF Claim, Authorize, TicketIs, Pending
<1>11. ASSUME NEW t \in Task, Reserve(t) PROVE Still
  BY <1>11, <1>h DEF Reserve, ReserveInteractive, ReserveUnattended, TicketIs, Pending
<1>12. ASSUME NEW t \in Task,
              \/ StartCompare(t) \/ PublishManual(t) \/ ApplyRefused(t) \/ StartWrites(t)
              \/ ExpireWritten(t) \/ ApplyEnds(t)
       PROVE  Still
  BY <1>12, <1>h DEF StartCompare, PublishManual, ApplyRefused, StartWrites, ExpireWritten, ApplyEnds
<1>13. ASSUME NEW k \in tokens,
              Approve(k) \/ Expires(k) \/ \E t \in Task : TakeCompare(t, k) \/ TakeApply(t, k)
       PROVE  Still
  BY <1>13, <1>h DEF Approve, Expires, TakeCompare, TakeApply
<1>14. ASSUME \/ \E r \in 1..MaxRuns : ReviewApply(r) \/ Forget(r)
              \/ \E g \in Target : ReviewCompare(g)
              \/ \E new \in Rev \cup {Deleted} : SaveJob(new)
              \/ \E new \in Rev : EditByHand(new)
              \/ ExpireOnSave \/ Dirty \/ Hear \/ UNCHANGED autoVars
       PROVE  Still
  BY <1>14, <1>h DEF ReviewApply, Forget, ReviewCompare, SaveJob, EditByHand, ExpireOnSave, Dirty, Hear, autoVars
<1> QED
  BY <1>3, <1>4, <1>5, <1>6, <1>7, <1>8, <1>9, <1>10, <1>11, <1>12, <1>13, <1>14 DEF AutoNext

\* A worker that has dirtied the evidence goes on with its trigger, whatever happens to its
\* generation.
LEMMA WorkerStays ==
  ASSUME AutoTypeOK, Linked, Gated, [AutoNext]_autoVars, worker.at = "dirtied"
  PROVE  Trigger \/ UNCHANGED worker
<1> USE DEF jobVars, evidenceVars, scanVars, workerVars, ObserverKeeps, WorkerKeeps
<1>1. ~Observe /\ ~Dirty /\ ~Hear /\ ~Joined
  BY DEF Observe, Dirty, Hear, Joined
<1>2. ASSUME NEW g \in Target, StartBegins(g) PROVE UNCHANGED worker
  BY <1>2 DEF StartBegins, Gated
<1>3. ASSUME NEW t \in Task, DeskStep(t) PROVE UNCHANGED worker
  BY <1>3 DEF DeskStep, TakeCompare, TakeApply, StartCompare, Launch, PublishManual, PublishPermitted,
     CompareFails, Claim, Authorize, ApplyRefused, Reserve, StartWrites, ExpireWritten, ApplyEnds
<1>4. ASSUME \/ \E k \in tokens : Approve(k) \/ Expires(k)
             \/ \E r \in 1..MaxRuns : ReviewApply(r) \/ Forget(r)
             \/ \E g \in Target : ReviewCompare(g)
             \/ ReviewTrigger \/ ReviewTriggerFails \/ Decline \/ StopBegins
             \/ \E new \in Rev \cup {Deleted} : SaveJob(new)
             \/ StopOnSave \/ ExpireOnSave
             \/ \E new \in Rev : EditByHand(new)
             \/ UNCHANGED autoVars
      PROVE  UNCHANGED worker
  BY <1>4 DEF Approve, Expires, ReviewApply, Forget, ReviewCompare, ReviewTrigger, ReviewTriggerFails,
     Decline, StopBegins, SaveJob, StopOnSave, ExpireOnSave, EditByHand, autoVars
<1> QED
  BY <1>1, <1>2, <1>3, <1>4 DEF AutoNext, DeskStep

LEMMA AttendedStep ==
  ASSUME AutoTypeOK, AutoTypeOK', Linked, PermitsBelong, TicketIsLast, Gated, Attended, [AutoNext]_autoVars
  PROVE  Attended'
<1> USE DEF jobVars, evidenceVars, scanVars, workerVars, ObserverKeeps, WorkerKeeps
<1>t. /\ exec \in ExecType /\ work \in WorkType /\ worker.scope \in Scope
      /\ \A t \in Task : work[t].token.scope \in Scope
  BY DEF AutoTypeOK, WorkType, Token, WorkerType
<1> SUFFICES ASSUME NEW s \in Scope, exec'[s].at \in Unfinished
             PROVE  ByTicket(s)' \/ ByWorker(s)' \/ ByPerson(s)'
  BY DEF Attended
<1>1. CASE exec[s].at \in Unfinished /\ exec'[s].epoch = exec[s].epoch
  <2>1. CASE ByTicket(s)
    <3>1. /\ UNCHANGED active /\ shared'.ticket.at \in Pending
          /\ shared'.ticket.epoch = shared.ticket.epoch
      BY <2>1, TicketStays
    <3> QED
      BY <1>1, <2>1, <3>1 DEF ByTicket
  <2>2. CASE ByWorker(s) /\ ~Trigger
    BY <1>1, <2>2, WorkerStays DEF ByWorker
  <2>3. CASE ByWorker(s) /\ Trigger
    <3>1. CASE revision = worker.scope.rev /\ shared.live
      <4>1. active # NoGeneration /\ active.scope = s /\ UNCHANGED active
        BY <2>3, <3>1 DEF ByWorker, Gated, Linked, Trigger
      <4>2. shared' = [shared EXCEPT !.latest = worker.id,
                         !.ticket = [at |-> "awaiting", id |-> worker.id, epoch |-> worker.epoch, run |-> 0]]
        BY <2>3, <3>1 DEF Trigger
      <4>3. shared'.ticket.at = "awaiting" /\ shared'.ticket.epoch = worker.epoch
        BY <4>2 DEF AutoTypeOK, SharedType
      <4> QED
        BY <1>1, <2>3, <4>1, <4>3 DEF ByWorker, ByTicket, Pending
    <3>2. CASE ~(revision = worker.scope.rev /\ shared.live)
      <4>1. exec' = Ended(s, exec[s].epoch)
        BY <2>3, <3>2 DEF Trigger, ByWorker
      <4> QED
        BY <1>t, <1>1, <4>1 DEF Ended, Terminates, ExecType, Unfinished
    <3> QED
      BY <3>1, <3>2
  <2>4. CASE ByPerson(s)
    <3>1. PICK t \in Task : /\ work[t].at = "comparing" /\ work[t].token.scope = s
                            /\ work[t].token.permit.gen = 0 /\ work[t].token.permit.epoch = exec[s].epoch
      BY <2>4 DEF ByPerson
    <3>2. work'[t] = work[t]
      BY <3>1, PeopleStay
    <3> QED
      BY <1>1, <3>1, <3>2 DEF ByPerson
  <2> QED
    BY <1>1, <2>1, <2>2, <2>3, <2>4 DEF Attended
<1>2. CASE Dirty /\ s = worker.scope
  <2>1. worker' = [worker EXCEPT !.at = "dirtied", !.epoch = exec'[worker.scope].epoch]
    BY <1>2 DEF Dirty
  <2> QED
    BY <1>2, <2>1 DEF ByWorker, AutoTypeOK, WorkerType
<1>3. CASE Dirty /\ s # worker.scope
  <2>1. exec'[s] = exec[s]
    BY <1>t, <1>3 DEF Dirty, Begun, ExecType
  <2> QED
    BY <1>1, <2>1
<1>4. ASSUME NEW t \in Task, LaunchManual(t), s = work[t].token.scope PROVE ByPerson(s)'
  <2>1. work[t].token.permit.gen = 0
    BY <1>4 DEF LaunchManual, NoPermit
  <2>2. work' = [work EXCEPT ![t].at = "comparing", ![t].token.permit.epoch = exec'[s].epoch]
    BY <1>4 DEF LaunchManual
  <2>3. /\ work'[t].at = "comparing" /\ work'[t].token.scope = s
        /\ work'[t].token.permit.gen = 0 /\ work'[t].token.permit.epoch = exec'[s].epoch
    BY <1>t, <1>4, <2>1, <2>2 DEF WorkType, Token, Permit
  <2> QED
    BY <2>3 DEF ByPerson
<1>5. ASSUME NEW t \in Task, LaunchManual(t), s # work[t].token.scope PROVE exec'[s] = exec[s]
  BY <1>t, <1>5 DEF LaunchManual, Begun, ExecType
<1>6. CASE \E t \in Task : LaunchManual(t)
  BY <1>1, <1>4, <1>5, <1>6
<1> QED
  BY <1>1, <1>2, <1>3, <1>6, OpenMoves DEF OnlyEnds

-----------------------------------------------------------------------------
(* A worker that waits.                                                    *)

Told(c, id) == \E i \in DOMAIN c : c[i] \in {0, id}

LEMMA AppendTells ==
  ASSUME NEW c \in Seq(Nat), NEW n \in Nat, NEW id, Told(c, id) \/ n \in {0, id}
  PROVE  Told(Append(c, n), id)
<1>1. /\ Append(c, n) \in Seq(Nat) /\ Len(Append(c, n)) = Len(c) + 1
      /\ Append(c, n)[Len(c) + 1] = n
      /\ \A i \in 1..Len(c) : Append(c, n)[i] = c[i]
      /\ Len(c) \in Nat /\ DOMAIN c = 1..Len(c) /\ DOMAIN Append(c, n) = 1..(Len(c) + 1)
  OBVIOUS
<1>2. CASE Told(c, id)
  <2>1. PICK i \in 1..Len(c) : c[i] \in {0, id}
    BY <1>1, <1>2 DEF Told
  <2>2. i \in 1..(Len(c) + 1) /\ Append(c, n)[i] \in {0, id}
    BY <1>1, <2>1
  <2> QED
    BY <1>1, <2>2 DEF Told
<1>3. CASE n \in {0, id}
  <2>1. Len(c) + 1 \in 1..(Len(c) + 1)
    BY <1>1
  <2> QED
    BY <1>1, <1>3, <2>1 DEF Told
<1> QED
  BY <1>2, <1>3

LEMMA TailTells ==
  ASSUME NEW c \in Seq(Nat), c # <<>>, NEW id, Told(c, id), Head(c) \notin {0, id}
  PROVE  Told(Tail(c), id)
<1>1. PICK i \in DOMAIN c : c[i] \in {0, id}
  BY DEF Told
<1>2. /\ Len(c) \in Nat /\ DOMAIN c = 1..Len(c) /\ Head(c) = c[1] /\ Len(Tail(c)) = Len(c) - 1
      /\ \A j \in 1..Len(Tail(c)) : Tail(c)[j] = c[j + 1]
      /\ DOMAIN Tail(c) = 1..Len(Tail(c))
  BY HeadTailProperties
<1>3. i # 1
  BY <1>1, <1>2
<1>4. i - 1 \in 1..Len(Tail(c)) /\ Tail(c)[i - 1] = c[i]
  BY <1>1, <1>2, <1>3
<1> QED
  BY <1>1, <1>2, <1>4 DEF Told

\* A ticket that ends while its worker waits leaves the word of it behind.
LEMMA WordMoves ==
  ASSUME AutoTypeOK, Linked, Gated, [AutoNext]_autoVars, UNCHANGED worker, worker.at = "waiting"
  PROVE  \/ /\ UNCHANGED <<active, commands>> /\ shared'.ticket.id = shared.ticket.id
            /\ shared.ticket.at \in Pending => shared'.ticket.at \in Pending
         \/ UNCHANGED commands /\ shared.ticket.at \notin Pending
         \/ commands' = Append(commands, shared.ticket.id)
         \/ commands' = Append(commands, 0)
         \/ UNCHANGED <<active, shared>> /\ Hear
<1> USE DEF jobVars, evidenceVars, scanVars, workerVars, ObserverKeeps, WorkerKeeps
<1>t. shared \in SharedType
  BY DEF AutoTypeOK
<1> DEFINE Stays == /\ UNCHANGED <<active, commands>> /\ shared'.ticket.id = shared.ticket.id
                    /\ shared.ticket.at \in Pending => shared'.ticket.at \in Pending
           Closed == UNCHANGED commands /\ shared.ticket.at \notin Pending
           Sent == commands' = Append(commands, shared.ticket.id) \/ commands' = Append(commands, 0)
<1>1. ASSUME Terminalize \/ Deactivates PROVE Sent
  BY <1>1 DEF Terminalize, Deactivates
<1>2. ~Joined /\ ~Observe /\ ~Dirty /\ ~Trigger
  BY DEF Joined, Observe, Dirty, Trigger
<1>3. ASSUME NEW g \in Target, StartBegins(g) PROVE Sent
  BY <1>1, <1>3 DEF StartBegins, Gated
<1>4. ASSUME ReviewTriggerFails \/ Decline \/ StopBegins \/ StopOnSave PROVE Sent \/ Stays
  BY <1>1, <1>4 DEF ReviewTriggerFails, Decline, StopBegins, StopOnSave
<1>5. ASSUME NEW t \in Task, CompareFails(t) PROVE Sent \/ Stays
  BY <1>1, <1>5 DEF CompareFails, Abandons
<1>6. ASSUME NEW t \in Task, PublishPermitted(t) PROVE Sent
  BY <1>6 DEF PublishPermitted
<1>7. ASSUME NEW t \in Task, Launch(t) PROVE Stays
  BY <1>7, <1>t DEF Launch, LaunchManual, LaunchPermitted, SharedType, TicketType, Pending
<1>8. ASSUME ReviewTrigger PROVE Stays
  BY <1>8, <1>t DEF ReviewTrigger, SharedType, TicketType, Pending
<1>9. ASSUME NEW t \in Task, Claim(t) \/ Authorize(t) PROVE Closed
  BY <1>9 DEF Claim, Authorize, TicketIs, Pending
<1>10. ASSUME NEW t \in Task, Reserve(t) PROVE Stays \/ Closed
  BY <1>10 DEF Reserve, ReserveInteractive, ReserveUnattended, TicketIs, Pending
<1>11. ASSUME NEW t \in Task,
              \/ StartCompare(t) \/ PublishManual(t) \/ ApplyRefused(t) \/ StartWrites(t)
              \/ ExpireWritten(t) \/ ApplyEnds(t)
       PROVE  Stays
  BY <1>11 DEF StartCompare, PublishManual, ApplyRefused, StartWrites, ExpireWritten, ApplyEnds
<1>12. ASSUME NEW k \in tokens,
              Approve(k) \/ Expires(k) \/ \E t \in Task : TakeCompare(t, k) \/ TakeApply(t, k)
       PROVE  Stays
  BY <1>12 DEF Approve, Expires, TakeCompare, TakeApply
<1>13. ASSUME \/ \E r \in 1..MaxRuns : ReviewApply(r) \/ Forget(r)
              \/ \E g \in Target : ReviewCompare(g)
              \/ \E new \in Rev \cup {Deleted} : SaveJob(new)
              \/ \E new \in Rev : EditByHand(new)
              \/ ExpireOnSave \/ UNCHANGED autoVars
       PROVE  Stays
  BY <1>13 DEF ReviewApply, Forget, ReviewCompare, SaveJob, EditByHand, ExpireOnSave, autoVars
<1>14. ASSUME Hear PROVE UNCHANGED <<active, shared>>
  BY <1>14 DEF Hear
<1> QED
  BY <1>2, <1>3, <1>4, <1>5, <1>6, <1>7, <1>8, <1>9, <1>10, <1>11, <1>12, <1>13, <1>14 DEF AutoNext

\* A worker begins to wait with a ticket of its own.
LEMMA WaitingMoves ==
  ASSUME AutoTypeOK, Linked, Gated, [AutoNext]_autoVars, worker'.at = "waiting", worker' # worker
  PROVE  /\ active' # NoGeneration /\ shared'.ticket.at = "awaiting" /\ shared'.ticket.id = worker'.id
<1> USE DEF jobVars, evidenceVars, scanVars, workerVars, ObserverKeeps, WorkerKeeps
<1>t. shared \in SharedType /\ worker \in WorkerType
  BY DEF AutoTypeOK
<1>1. ~Observe /\ ~Dirty /\ ~Hear
  BY <1>t DEF Observe, Dirty, Hear, WorkerType
<1>2. ASSUME NEW g, Spawns(g) PROVE FALSE
  BY <1>2 DEF Spawns
<1>3. ASSUME Joined \/ \E g \in Target : StartBegins(g) PROVE FALSE
  BY <1>2, <1>3 DEF Joined, StartBegins
<1>4. ASSUME NEW t \in Task, DeskStep(t) PROVE UNCHANGED worker
  BY <1>4 DEF DeskStep, TakeCompare, TakeApply, StartCompare, Launch, PublishManual, PublishPermitted,
     CompareFails, Claim, Authorize, ApplyRefused, Reserve, StartWrites, ExpireWritten, ApplyEnds
<1>5. ASSUME \/ \E k \in tokens : Approve(k) \/ Expires(k)
             \/ \E r \in 1..MaxRuns : ReviewApply(r) \/ Forget(r)
             \/ \E g \in Target : ReviewCompare(g)
             \/ ReviewTrigger \/ ReviewTriggerFails \/ Decline \/ StopBegins
             \/ \E new \in Rev \cup {Deleted} : SaveJob(new)
             \/ StopOnSave \/ ExpireOnSave
             \/ \E new \in Rev : EditByHand(new)
             \/ UNCHANGED autoVars
      PROVE  UNCHANGED worker
  BY <1>5 DEF Approve, Expires, ReviewApply, Forget, ReviewCompare, ReviewTrigger, ReviewTriggerFails,
     Decline, StopBegins, SaveJob, StopOnSave, ExpireOnSave, EditByHand, autoVars
<1>6. Trigger
  BY <1>1, <1>3, <1>4, <1>5 DEF AutoNext, DeskStep
<1>7. revision = worker.scope.rev /\ shared.live /\ UNCHANGED active /\ worker'.id = worker.id
  BY <1>t, <1>6 DEF Trigger, WorkerType
<1>8. shared' = [shared EXCEPT !.latest = worker.id,
                   !.ticket = [at |-> "awaiting", id |-> worker.id, epoch |-> worker.epoch, run |-> 0]]
  BY <1>6, <1>7 DEF Trigger
<1>9. shared'.ticket.at = "awaiting" /\ shared'.ticket.id = worker.id
  BY <1>t, <1>8 DEF SharedType
<1> QED
  BY <1>7, <1>9 DEF Gated

LEMMA ToldStep ==
  ASSUME AutoTypeOK, AutoTypeOK', Linked, Gated, WorkerIsTold, [AutoNext]_autoVars PROVE WorkerIsTold'
<1>t. /\ commands \in Seq(Nat) /\ worker \in WorkerType /\ shared.ticket.id \in Nat
  BY DEF AutoTypeOK, SharedType, TicketType
<1> SUFFICES ASSUME worker'.at = "waiting"
             PROVE  \/ active' # NoGeneration /\ shared'.ticket.at \in Pending /\ shared'.ticket.id = worker'.id
                    \/ Told(commands', worker'.id)
  BY DEF WorkerIsTold, Told
<1>1. CASE worker' # worker
  BY <1>1, WaitingMoves DEF Pending
<1>2. CASE UNCHANGED worker
  <2>1. \/ active # NoGeneration /\ shared.ticket.at \in Pending /\ shared.ticket.id = worker.id
        \/ Told(commands, worker.id)
    BY <1>2 DEF WorkerIsTold, Told
  <2>2. CASE commands' = Append(commands, shared.ticket.id)
    BY <1>2, <1>t, <2>1, <2>2, AppendTells
  <2>3. CASE commands' = Append(commands, 0)
    BY <1>2, <1>t, <2>3, AppendTells
  <2>4. CASE UNCHANGED <<active, shared>> /\ Hear
    <3>1. /\ commands # <<>> /\ commands' = Tail(commands)
          /\ Head(commands) \notin {0, worker.id}
      BY <1>2, <1>t, <2>4 DEF Hear, WorkerType
    <3> QED
      BY <1>2, <1>t, <2>1, <2>4, <3>1, TailTells
  <2> QED
    BY <1>2, <2>1, <2>2, <2>3, <2>4, WordMoves
<1> QED
  BY <1>1, <1>2

-----------------------------------------------------------------------------
(* A ticket nobody leaves.                                                 *)

\* What is under way to the worker: the ends of its tickets so far, and of its generation.
Ordered ==
  /\ \A i \in DOMAIN commands : commands[i] <= worker.id
  /\ active # NoGeneration => \A i \in DOMAIN commands : commands[i] # 0
  /\ worker.at \in {"observed", "dirtied"} => \A i \in DOMAIN commands : commands[i] # worker.id
  /\ worker.at \in {"observed", "dirtied", "waiting"} => worker.id # 0

Awaited == Ordered /\ TicketIsAwaited

LEMMA AppendIs ==
  ASSUME NEW c \in Seq(Nat), NEW n \in Nat
  PROVE  \A i \in DOMAIN Append(c, n) : Append(c, n)[i] = n \/ \E j \in DOMAIN c : Append(c, n)[i] = c[j]
<1>1. /\ \A i \in 1..Len(c) : Append(c, n)[i] = c[i]
      /\ Append(c, n)[Len(c) + 1] = n /\ Len(c) \in Nat
      /\ DOMAIN c = 1..Len(c) /\ DOMAIN Append(c, n) = 1..(Len(c) + 1)
  OBVIOUS
<1> QED
  BY <1>1

LEMMA TailIs ==
  ASSUME NEW c \in Seq(Nat), c # <<>>
  PROVE  \A i \in DOMAIN Tail(c) : \E j \in DOMAIN c : Tail(c)[i] = c[j]
<1>1. /\ Len(c) \in Nat /\ DOMAIN c = 1..Len(c) /\ Len(Tail(c)) = Len(c) - 1
      /\ \A j \in 1..Len(Tail(c)) : Tail(c)[j] = c[j + 1]
      /\ DOMAIN Tail(c) = 1..Len(Tail(c))
  BY HeadTailProperties
<1>2. \A i \in DOMAIN Tail(c) : i + 1 \in DOMAIN c /\ Tail(c)[i] = c[i + 1]
  BY <1>1
<1> QED
  BY <1>2

\* What a step of another does to the ticket: nothing that opens one, its end, or the
\* generation's.
LEMMA TicketEnds ==
  ASSUME AutoTypeOK, Linked, Gated, Awaited, [AutoNext]_autoVars
  PROVE  \/ /\ UNCHANGED <<worker, commands, active>>
            /\ shared'.ticket.at \in Pending => shared.ticket.at \in Pending /\ shared'.ticket.id = shared.ticket.id
         \/ /\ UNCHANGED <<worker, active>> /\ shared.ticket.at \in Pending /\ shared'.ticket.at \notin Pending
            /\ commands' = Append(commands, shared.ticket.id)
         \/ /\ UNCHANGED worker /\ active' = NoGeneration /\ shared'.ticket.at \notin Pending
            /\ commands' = Append(commands, 0)
         \/ commands' = <<>> /\ worker'.at = "idle" /\ worker'.id = 0 /\ shared'.ticket.at \notin Pending
         \/ Observe \/ Dirty \/ Trigger \/ Hear
<1> USE DEF jobVars, evidenceVars, scanVars, workerVars
<1>t. shared \in SharedType
  BY DEF AutoTypeOK
<1> DEFINE Calm == /\ UNCHANGED <<worker, commands, active>>
                   /\ shared'.ticket.at \in Pending =>
                        shared.ticket.at \in Pending /\ shared'.ticket.id = shared.ticket.id
           Ends == /\ UNCHANGED <<worker, active>> /\ shared.ticket.at \in Pending /\ shared'.ticket.at \notin Pending
                   /\ commands' = Append(commands, shared.ticket.id)
           Gone == /\ UNCHANGED worker /\ active' = NoGeneration /\ shared'.ticket.at \notin Pending
                   /\ commands' = Append(commands, 0)
           Comes == commands' = <<>> /\ worker'.at = "idle" /\ worker'.id = 0 /\ shared'.ticket.at \notin Pending
<1>1. ASSUME Terminalize, shared.ticket.at \in Pending, UNCHANGED <<worker, active>> PROVE Ends
  <2>1. worker.at = "waiting"
    BY <1>1 DEF Awaited, TicketIsAwaited
  <2>2. commands' = Append(commands, shared.ticket.id)
    BY <1>1, <2>1 DEF Terminalize
  <2>3. shared'.ticket = NoTicket
    BY <1>1, <1>t DEF Terminalize, SharedType
  <2> QED
    BY <1>1, <2>2, <2>3 DEF NoTicket, Pending
<1>2. ASSUME Deactivates, UNCHANGED worker PROVE Gone
  <2>1. shared'.ticket = NoTicket
    BY <1>2, <1>t DEF Deactivates, SharedType
  <2> QED
    BY <1>2, <2>1 DEF Deactivates, NoTicket, Pending
<1>3. ASSUME NEW g, Spawns(g) PROVE Comes
  BY <1>3 DEF Spawns, NoTicket, Pending
<1>4. ASSUME NEW g \in Target, StartBegins(g) PROVE Comes \/ Gone
  BY <1>2, <1>3, <1>4 DEF StartBegins
<1>5. ASSUME Joined PROVE Comes \/ Calm
  BY <1>3, <1>5 DEF Joined
<1>6. ASSUME ReviewTriggerFails \/ Decline PROVE Ends
  BY <1>1, <1>6 DEF ReviewTriggerFails, Decline, Pending
<1>7. ASSUME StopBegins \/ StopOnSave PROVE Gone \/ Calm
  BY <1>2, <1>7 DEF StopBegins, StopOnSave
<1>8. ASSUME NEW t \in Task, CompareFails(t) PROVE Ends \/ Calm
  BY <1>1, <1>8 DEF CompareFails, Abandons, OwnsPermit, Pending
<1>9. ASSUME NEW t \in Task, PublishPermitted(t) PROVE Ends
  <2>1. shared.ticket.at = "running" /\ UNCHANGED <<worker, active>>
        /\ commands' = Append(commands, shared.ticket.id)
    BY <1>9 DEF PublishPermitted
  <2>2. shared'.ticket.at \in {"completed", "idle"}
    BY <1>9, <1>t DEF PublishPermitted, SharedType, TicketType, NoTicket
  <2> QED
    BY <2>1, <2>2 DEF Pending
<1>10. ASSUME NEW t \in Task, Launch(t) PROVE Calm
  BY <1>10, <1>t DEF Launch, LaunchManual, LaunchPermitted, CanLaunch, SharedType, TicketType, Pending
<1>11. ASSUME ReviewTrigger PROVE Calm
  BY <1>11, <1>t DEF ReviewTrigger, SharedType, TicketType, Pending
<1>12. ASSUME NEW t \in Task, Claim(t) \/ Authorize(t) PROVE Calm
  BY <1>12, <1>t DEF Claim, Authorize, SharedType, TicketType, NoTicket, Pending
<1>13. ASSUME NEW t \in Task, Reserve(t) PROVE Calm
  BY <1>13, <1>t DEF Reserve, ReserveInteractive, ReserveUnattended, SharedType, TicketType, NoTicket, Pending
<1>14. ASSUME NEW t \in Task,
              \/ StartCompare(t) \/ PublishManual(t) \/ ApplyRefused(t) \/ StartWrites(t)
              \/ ExpireWritten(t) \/ ApplyEnds(t)
       PROVE  Calm
  BY <1>14 DEF StartCompare, PublishManual, ApplyRefused, StartWrites, ExpireWritten, ApplyEnds
<1>15. ASSUME NEW k \in tokens,
              Approve(k) \/ Expires(k) \/ \E t \in Task : TakeCompare(t, k) \/ TakeApply(t, k)
       PROVE  Calm
  BY <1>15 DEF Approve, Expires, TakeCompare, TakeApply
<1>16. ASSUME \/ \E r \in 1..MaxRuns : ReviewApply(r) \/ Forget(r)
              \/ \E g \in Target : ReviewCompare(g)
              \/ \E new \in Rev \cup {Deleted} : SaveJob(new)
              \/ \E new \in Rev : EditByHand(new)
              \/ ExpireOnSave \/ UNCHANGED autoVars
       PROVE  Calm
  BY <1>16 DEF ReviewApply, Forget, ReviewCompare, SaveJob, EditByHand, ExpireOnSave, autoVars
<1> QED
  BY <1>4, <1>5, <1>6, <1>7, <1>8, <1>9, <1>10, <1>11, <1>12, <1>13, <1>14, <1>15, <1>16 DEF AutoNext

LEMMA AwaitedStep ==
  ASSUME AutoTypeOK, Linked, Gated, Awaited, [AutoNext]_autoVars PROVE Awaited'
<1>t. /\ commands \in Seq(Nat) /\ worker \in WorkerType /\ shared \in SharedType
      /\ worker.id \in Nat /\ shared.ticket.id \in Nat /\ DOMAIN commands = 1..Len(commands)
      /\ \A i \in DOMAIN commands : commands[i] \in Nat
  BY DEF AutoTypeOK, SharedType, TicketType, WorkerType
<1> USE DEF Awaited, Ordered
<1>1. CASE /\ UNCHANGED <<worker, commands, active>>
           /\ shared'.ticket.at \in Pending => shared.ticket.at \in Pending /\ shared'.ticket.id = shared.ticket.id
  BY <1>1 DEF TicketIsAwaited, Pending
<1>2. CASE /\ UNCHANGED <<worker, active>> /\ shared.ticket.at \in Pending /\ shared'.ticket.at \notin Pending
           /\ commands' = Append(commands, shared.ticket.id)
  <2>1. worker.at = "waiting" /\ worker.id = shared.ticket.id /\ worker.id # 0
    BY <1>2 DEF TicketIsAwaited
  <2>2. \A i \in DOMAIN commands' : commands'[i] = worker.id \/ \E j \in DOMAIN commands : commands'[i] = commands[j]
    BY <1>2, <1>t, <2>1, AppendIs
  <2>3. Ordered'
    BY <1>2, <1>t, <2>1, <2>2
  <2>4. TicketIsAwaited'
    BY <1>2 DEF TicketIsAwaited, Pending
  <2> QED
    BY <2>3, <2>4
<1>3. CASE /\ UNCHANGED worker /\ active' = NoGeneration /\ shared'.ticket.at \notin Pending
           /\ commands' = Append(commands, 0)
  <2>2. \A i \in DOMAIN commands' : commands'[i] = 0 \/ \E j \in DOMAIN commands : commands'[i] = commands[j]
    BY <1>3, <1>t, AppendIs
  <2>3. Ordered'
    BY <1>3, <1>t, <2>2
  <2>4. TicketIsAwaited'
    BY <1>3 DEF TicketIsAwaited, Pending
  <2> QED
    BY <2>3, <2>4
<1>4. CASE commands' = <<>> /\ worker'.at = "idle" /\ worker'.id = 0 /\ shared'.ticket.at \notin Pending
  BY <1>4 DEF TicketIsAwaited, Pending
<1>5. CASE Observe
  <2>1. UNCHANGED <<commands, active>> /\ worker.at = "idle"
    BY <1>5 DEF Observe, ObserverKeeps
  <2>2. shared.ticket.at \notin Pending
    BY <2>1 DEF TicketIsAwaited
  <2>3. UNCHANGED shared
    BY <1>5, <2>2 DEF Observe
  <2>4. TicketIsAwaited'
    BY <2>2, <2>3 DEF TicketIsAwaited, Pending
  <2>5. \/ worker'.at = "off" /\ worker'.id = worker.id
        \/ worker'.at = "observed" /\ worker'.id = worker.id + 1
    BY <1>5, <1>t, <2>2 DEF Observe, WorkerType
  <2>6. Ordered'
    BY <1>t, <2>1, <2>5
  <2> QED
    BY <2>4, <2>6
<1>6. CASE Dirty
  <2>1. UNCHANGED <<commands, active, shared>> /\ worker.at = "observed" /\ worker'.at = "dirtied"
        /\ worker'.id = worker.id
    BY <1>6, <1>t DEF Dirty, WorkerKeeps, ObserverKeeps, WorkerType
  <2> QED
    BY <2>1 DEF TicketIsAwaited, Pending
<1>7. CASE Trigger
  <2>1. UNCHANGED <<commands, active>> /\ worker.at = "dirtied" /\ worker'.id = worker.id
    BY <1>7, <1>t DEF Trigger, WorkerKeeps, ObserverKeeps, WorkerType
  <2>2. shared.ticket.at \notin Pending
    BY <2>1 DEF TicketIsAwaited
  <2>3. CASE revision = worker.scope.rev /\ shared.live
    <3>0. worker' = [worker EXCEPT !.at = "waiting"]
          /\ shared' = [shared EXCEPT !.latest = worker.id,
                          !.ticket = [at |-> "awaiting", id |-> worker.id,
                                      epoch |-> worker.epoch, run |-> 0]]
      BY <1>7, <2>3 DEF Trigger
    <3>1. worker'.at = "waiting" /\ shared'.ticket.id = worker.id /\ active # NoGeneration
      BY <1>t, <2>3, <3>0 DEF WorkerType, SharedType, Gated
    <3>2. TicketIsAwaited'
      BY <2>1, <3>1 DEF TicketIsAwaited
    <3> QED
      BY <2>1, <3>1, <3>2
  <2>4. CASE ~(revision = worker.scope.rev /\ shared.live)
    <3>1. worker'.at = "off" /\ (shared' = shared \/ shared'.ticket = NoTicket)
      BY <1>7, <1>t, <2>4 DEF Trigger, WorkerType, SharedType
    <3>2. TicketIsAwaited'
      BY <2>2, <3>1 DEF TicketIsAwaited, NoTicket, Pending
    <3> QED
      BY <2>1, <3>1, <3>2
  <2> QED
    BY <2>3, <2>4
<1>8. CASE Hear
  <2>1. /\ UNCHANGED <<active, shared>> /\ commands # <<>> /\ commands' = Tail(commands)
        /\ worker.at \in {"idle", "waiting"} /\ worker'.id = worker.id
        /\ worker'.at = IF Head(commands) = 0 THEN "off"
                        ELSE IF Head(commands) = worker.id THEN "idle" ELSE worker.at
    BY <1>8, <1>t DEF Hear, WorkerKeeps, ObserverKeeps, WorkerType
  <2>2. 1 \in DOMAIN commands /\ Head(commands) = commands[1]
    BY <1>t, <2>1
  <2>3. \A i \in DOMAIN commands' : \E j \in DOMAIN commands : commands'[i] = commands[j]
    BY <1>t, <2>1, TailIs
  <2>4. shared.ticket.at \in Pending => worker'.at = "waiting"
    BY <2>1, <2>2 DEF TicketIsAwaited
  <2>5. TicketIsAwaited'
    BY <2>1, <2>3, <2>4 DEF TicketIsAwaited
  <2>6. Ordered'
    BY <2>1, <2>3
  <2> QED
    BY <2>5, <2>6
<1> QED
  BY <1>1, <1>2, <1>3, <1>4, <1>5, <1>6, <1>7, <1>8, TicketEnds

-----------------------------------------------------------------------------
(* Authorities and saves.                                                  *)

LEMMA SavesMove ==
  ASSUME AutoTypeOK, [AutoNext]_autoVars
  PROVE  \/ left'["save"] = left["save"]
         \/ /\ tokens' = {} /\ UNCHANGED work
            /\ \A t \in Task : work[t].at \notin {"claimed", "prepared"}
<1> USE DEF jobVars, evidenceVars, scanVars, workerVars, ObserverKeeps, WorkerKeeps
<1>t. left \in [Chance -> Nat] /\ "save" \in Chance
  BY DEF AutoTypeOK, Chance
<1>1. ASSUME NEW what, what # "save", Uses(what) PROVE left'["save"] = left["save"]
  BY <1>1, <1>t DEF Uses
<1>2. ASSUME NEW new \in Rev \cup {Deleted}, SaveJob(new)
      PROVE  /\ tokens' = {} /\ UNCHANGED work
             /\ \A t \in Task : work[t].at \notin {"claimed", "prepared"}
  BY <1>2 DEF SaveJob, NothingRuns, Leased
<1>3. ASSUME NEW t \in Task, DeskStep(t) PROVE left'["save"] = left["save"]
  BY <1>1, <1>3 DEF DeskStep, TakeCompare, TakeApply, StartCompare, Launch, PublishManual, PublishPermitted,
     CompareFails, Claim, Authorize, ApplyRefused, Reserve, StartWrites, ExpireWritten, ApplyEnds
<1>4. ASSUME \/ \E k \in tokens : Approve(k) \/ Expires(k)
             \/ \E r \in 1..MaxRuns : ReviewApply(r) \/ Forget(r)
             \/ \E g \in Target : ReviewCompare(g) \/ StartBegins(g)
             \/ ReviewTrigger \/ ReviewTriggerFails \/ Decline \/ StopBegins \/ Joined
      PROVE  left'["save"] = left["save"]
  BY <1>1, <1>4 DEF Approve, Expires, ReviewApply, Forget, ReviewCompare, StartBegins, ReviewTrigger,
     ReviewTriggerFails, Decline, StopBegins, Joined
<1>5. ASSUME \/ Observe \/ Dirty \/ Trigger \/ Hear \/ StopOnSave \/ ExpireOnSave
             \/ \E new \in Rev : EditByHand(new)
             \/ UNCHANGED autoVars
      PROVE  left'["save"] = left["save"]
  BY <1>1, <1>5 DEF Observe, Dirty, Trigger, Hear, StopOnSave, ExpireOnSave, EditByHand, autoVars
<1> QED
  BY <1>2, <1>3, <1>4, <1>5 DEF AutoNext, DeskStep

LEMMA SavesStep ==
  ASSUME AutoTypeOK, SavesKept, [AutoNext]_autoVars PROVE SavesKept'
<1>t. \A k \in tokens : k \in Token
  BY DEF AutoTypeOK
<1>1. CASE /\ tokens' = {} /\ UNCHANGED work
           /\ \A t \in Task : work[t].at \notin {"claimed", "prepared"}
  BY <1>1 DEF SavesKept
<1>2. CASE left'["save"] = left["save"]
  <2>1. ASSUME NEW k \in tokens', IsApply(k) PROVE k.saves = left["save"]
    <3>1. CASE k \in tokens
      BY <2>1, <3>1 DEF SavesKept
    <3>2. ASSUME NEW r \in 1..MaxRuns, ReviewApply(r), k \notin tokens PROVE k.saves = left["save"]
      BY <3>2 DEF ReviewApply, Issues
    <3>3. ASSUME NEW j \in tokens, IsApply(j), k = [j EXCEPT !.kind = "interactive"]
          PROVE  k.saves = left["save"]
      BY <1>t, <3>3 DEF SavesKept, Token
    <3>4. ASSUME NEW t \in Task, work[t].at = "claimed", k = work[t].token PROVE k.saves = left["save"]
      BY <3>4 DEF SavesKept
    <3> QED
      BY <2>1, <3>1, <3>2, <3>3, <3>4, TokenMoves
  <2>2. ASSUME NEW t \in Task, work'[t].at \in {"claimed", "prepared"} PROVE work'[t].token.saves = left["save"]
    <3>1. CASE work'[t] = work[t]
      BY <2>2, <3>1 DEF SavesKept
    <3>2. ASSUME NEW k \in tokens, work'[t].token = k, k.kind \in {"interactive", "auto"}
          PROVE  work'[t].token.saves = left["save"]
      BY <3>2 DEF SavesKept, IsApply
    <3> QED
      BY <2>2, <3>1, <3>2, WorkMoves
  <2> QED
    BY <1>2, <2>1, <2>2 DEF SavesKept
<1> QED
  BY <1>1, <1>2, SavesMove

LEMMA WatchfulStep == ASSUME Inv, Watchful, [AutoNext]_autoVars PROVE Watchful'
<1>1. AutoTypeOK'
  BY TypeStep DEF Inv
<1>2. Gated'
  BY GatedStep DEF Inv, Watchful
<1>3. Attended'
  BY <1>1, AttendedStep DEF Inv, Watchful
<1>4. WorkerIsTold'
  BY <1>1, ToldStep DEF Inv, Watchful
<1>5. SavesKept'
  BY SavesStep DEF Inv, Watchful
<1> QED
  BY <1>2, <1>3, <1>4, <1>5 DEF Watchful

LEMMA WatchfulHolds == AutoSpec => []Watchful
<1>1. AutoInit => Watchful
  BY WatchfulInitially
<1>2. Inv /\ Watchful /\ [AutoNext]_autoVars => Watchful'
  BY WatchfulStep
<1> QED
  BY <1>1, <1>2, InvariantHolds, PTL DEF AutoSpec

\* No verification stays open with nobody to end it: the pending ticket, the worker about to hand
\* it over, or the compare that runs for it (terminalize_verification, deactivate, publish_trigger
\* and the failures of a compare command).
THEOREM NoOrphans == AutoSpec => []NoOrphanVerification
<1>1. Watchful => NoOrphanVerification
  BY DEF Watchful, Attended, NoOrphanVerification, ByTicket, ByWorker, ByPerson
<1> QED
  BY <1>1, WatchfulHolds, PTL

\* A worker that waits for its ticket can still be told what became of it: the command is sent by
\* the same step that ends the ticket (terminalize_verification, deactivate, publish of a compare).
THEOREM WorkersAreTold == AutoSpec => []WorkerIsTold
<1>1. Watchful => WorkerIsTold
  BY DEF Watchful
<1> QED
  BY <1>1, WatchfulHolds, PTL

\* A worker never leaves, or publishes over, a ticket that is pending: the branch of
\* publish_trigger that ends an overlapped ticket, and that of terminalize_verification for a
\* worker that has gone, are never taken (no other step ends a worker's wait than the word of
\* its ticket's end, sent with that end).
THEOREM TicketsAreAwaited == AutoSpec => []TicketIsAwaited
<1>1. AutoInit => Awaited
  BY DEF AutoInit, Awaited, Ordered, TicketIsAwaited, NoTicket, Pending
<1>2. Inv /\ Watchful /\ Awaited /\ [AutoNext]_autoVars => Awaited'
  BY AwaitedStep DEF Inv, Watchful
<1>3. Awaited => TicketIsAwaited
  BY DEF Awaited
<1> QED
  BY <1>1, <1>2, <1>3, InvariantHolds, WatchfulHolds, PTL DEF AutoSpec

\* No apply starts on an authority issued before the program last changed the job: a save takes
\* every token back and waits for whoever holds a lease (the mutation's effects and its lease).
THEOREM NoneAcrossASave == AutoSpec => NoApplyAcrossASave
<1> DEFINE SinceSave == \A t \in Task : Starts(t) => work[t].token.saves = left["save"]
<1>1. Watchful => SinceSave
  BY DEF Watchful, SavesKept, Starts
<1>2. Watchful /\ [AutoNext]_autoVars => [SinceSave]_autoVars
  BY <1>1
<1> QED
  BY <1>2, WatchfulHolds, PTL DEF AutoSpec, NoApplyAcrossASave
=============================================================================
