------------------------------ MODULE AutoScan ------------------------------
(***************************************************************************)
(* Who may write unattended, and on what evidence: the AutoScan controller, *)
(* its worker, the execution state of retained compares, the store of       *)
(* one-use authorizations, and the compare and apply commands that use them.*)
(*                                                                         *)
(* Four locks protect four pieces of state (the controller's gate, the      *)
(* generation's shared status, the results, the authorizations); a command  *)
(* holds several of them only across one short step, so every step here is  *)
(* one such critical section, and everything between two of them may        *)
(* interleave.  One job is followed, in its revisions and its targets.      *)
(***************************************************************************)
EXTENDS Naturals, Sequences, FiniteSets

CONSTANTS Tasks,          \* bound: blocking tasks of the desktop at work at once
          Rev, Target,    \* configuration revisions and targets of the job
          Unattended,     \* the revisions with autoscan_auto_apply
          Deleted, NoGeneration,
          MaxRuns, MaxTokens, \* bounds: compares, authorizations at once
          Allowance       \* bounds: how often what may happen, a choice of scenarios

\* What the allowances are of.
Chance == {"start", "ticket", "compare", "save", "hand", "expiry", "forget"}

ASSUME AutoScanAssumption ==
  /\ Deleted \notin Rev /\ Unattended \subseteq Rev /\ Rev # {} /\ Target # {}
  /\ NoGeneration \notin [gen : Nat, scope : [rev : Rev, target : Target], auto : BOOLEAN]
  /\ {Tasks, MaxRuns, MaxTokens} \subseteq Nat
  /\ Allowance \subseteq [Chance -> Nat]

VARIABLES revision,    \* of the job in the registry
          mutation,    \* where the mutation of the job is, and the revision it replaced
          exec,        \* CompareExecutionState of each scope
          result,      \* by run: the compare it published
          runs,        \* last run id of a compare
          slot,        \* the task of the active run
          work,        \* the commands
          tokens,      \* challenges and authorizations
          active,      \* ActiveAutoScan
          shared,      \* AutoScanShared of the latest generation
          gate,        \* who holds the gate while joining the worker, and why
          worker, commands,
          wrote,       \* history: applies of a revision that wrote
          left         \* the allowances not yet used up

jobVars == <<revision, mutation>>
evidenceVars == <<exec, result>>
scanVars == <<active, shared, gate>>
workerVars == <<worker, commands>>
autoVars == <<revision, mutation, exec, result, runs, slot, work, tokens, active, shared,
              gate, worker, commands, wrote, left>>

Task == 1..Tasks
NoTask == 0
Scope == [rev : Rev, target : Target]
Unfinished == {"awaiting", "comparing"}
NoExecution == [at |-> "none", epoch |-> 0, run |-> 0]

\* An AutoScan permit, the ticket of an unattended apply, and what an authorization binds.
NoPermit == [gen |-> 0, id |-> 0, epoch |-> 0]
NoToken == [kind |-> "none", scope |-> CHOOSE s \in Scope : TRUE, run |-> 0,
            permit |-> NoPermit, saves |-> 0]
NoWork == [at |-> "idle", token |-> NoToken, run |-> 0]
NoTicket == [at |-> "idle", id |-> 0, epoch |-> 0, run |-> 0]
NoResult == [scope |-> NoToken.scope, kept |-> FALSE, epoch |-> 0, wrote |-> 0]
Pending == {"awaiting", "permitted", "running"}

\* A command takes a task of the pool: the first one idle, as they have no identity.
Unused(t) == work[t] = NoWork /\ \A u \in Task : u < t => work[u] # NoWork

Uses(what) == left[what] > 0 /\ left' = [left EXCEPT ![what] = @ - 1]

AutoInit ==
  /\ revision \in Rev /\ mutation = [at |-> "none", old |-> Deleted]
  /\ exec = [s \in Scope |-> NoExecution]
  /\ result = [r \in 1..MaxRuns |-> NoResult] /\ runs = 0 /\ slot = NoTask
  /\ work = [t \in Task |-> NoWork] /\ tokens = {}
  /\ active = NoGeneration /\ shared = [live |-> FALSE, gen |-> 0, latest |-> 0, ticket |-> NoTicket]
  /\ gate = [for |-> "nobody", next |-> NoGeneration]
  /\ worker = [at |-> "off", id |-> 0, epoch |-> 0, gen |-> 0, scope |-> NoToken.scope]
  /\ commands = <<>>
  /\ wrote = [v \in Rev |-> 0]
  /\ left \in Allowance

(*********************** the execution state of a scope *********************)
Begun(e, s, run) ==
  [e EXCEPT ![s] = [at |-> IF run = 0 THEN "awaiting" ELSE "comparing",
                    epoch |-> @.epoch + 1, run |-> run]]

Terminates(s, epoch) == exec[s].epoch = epoch /\ exec[s].at \in Unfinished
Ended(s, epoch) ==
  IF Terminates(s, epoch) THEN [exec EXCEPT ![s].at = "over"] ELSE exec

\* The result of `run` is the fresh one of its scope, and still retained.
IsFresh(run) ==
  /\ result[run].kept
  /\ exec[result[run].scope].at = "fresh" /\ exec[result[run].scope].run = run

Expired(e, revisions) ==
  [s \in Scope |-> IF s.rev \in revisions /\ e[s].at # "none" THEN [e[s] EXCEPT !.at = "over"]
                   ELSE e[s]]

\* A person forgets a retained result.
Forget(run) ==
  /\ Uses("forget") /\ result[run].kept
  /\ exec' = IF IsFresh(run) THEN [exec EXCEPT ![result[run].scope] = NoExecution] ELSE exec
  /\ result' = [result EXCEPT ![run].kept = FALSE]
  /\ UNCHANGED <<jobVars, runs, slot, work, tokens, scanVars, workerVars, wrote>>

(*************************** the authorization store ************************)
IsApply(k) == k.kind \in {"review", "interactive", "auto"}
Revoked(scope) == {k \in tokens : ~(IsApply(k) /\ k.scope = scope)}
Issues(k) == Cardinality(tokens) < MaxTokens /\ tokens' = tokens \cup {k}

Expires(k) ==
  /\ Uses("expiry")
  /\ k \in tokens /\ tokens' = tokens \ {k}
  /\ UNCHANGED <<jobVars, evidenceVars, runs, slot, work, scanVars, workerVars, wrote>>

(******************************** the controller ****************************)
GateFree == gate.for = "nobody"
Binds(permit) == active # NoGeneration /\ active.gen = permit.gen

\* terminalize_verification: the repository first, then the ticket, then the worker; a
\* repository that moved on stops the generation, and so does a worker that has left.
TicketPermit == [gen |-> active.gen, id |-> shared.ticket.id, epoch |-> shared.ticket.epoch]
OwnsPermit(permit) ==
  /\ Binds(permit) /\ shared.ticket.id = permit.id
  /\ shared.ticket.at \in {"permitted", "running"}

\* Mutant: the ticket that ended stays with its generation.
TerminalizeLeavesTicket ==
  LET s == active.scope IN
  /\ exec' = Ended(s, shared.ticket.epoch)
  /\ shared' = [shared EXCEPT !.live = @ /\ Terminates(s, shared.ticket.epoch)
                                         /\ worker.at # "off"]
  /\ commands' = IF worker.at = "off" THEN commands ELSE Append(commands, shared.ticket.id)

Terminalize ==
  LET s == active.scope IN
  /\ exec' = Ended(s, shared.ticket.epoch)
  /\ shared' = [shared EXCEPT !.ticket = NoTicket,
                              !.live = @ /\ Terminates(s, shared.ticket.epoch)
                                         /\ worker.at # "off"]
  /\ commands' = IF worker.at = "off" THEN commands ELSE Append(commands, shared.ticket.id)

\* A task that fails ends its permit's verification, if the permit still owns it.
Abandons(permit) ==
  /\ permit # NoPermit => GateFree
  /\ IF permit # NoPermit /\ OwnsPermit(permit) THEN Terminalize
     ELSE UNCHANGED <<exec, shared, commands>>

Decline ==
  /\ GateFree /\ active # NoGeneration
  /\ shared.ticket.at \in {"awaiting", "permitted"}
  /\ Terminalize
  /\ UNCHANGED <<jobVars, result, runs, slot, work, tokens, active, gate, worker, wrote, left>>

\* Deactivate the generation and tell the worker; the gate is held until it has ended.
Deactivates ==
  /\ exec' = IF shared.ticket.at \in Pending THEN Ended(active.scope, shared.ticket.epoch)
             ELSE exec
  /\ shared' = [shared EXCEPT !.live = FALSE, !.ticket = NoTicket]
  /\ active' = NoGeneration
  /\ commands' = Append(commands, 0)

StopBegins ==
  /\ GateFree /\ active # NoGeneration
  /\ Deactivates
  /\ gate' = [for |-> "stop", next |-> NoGeneration]
  /\ UNCHANGED <<jobVars, result, runs, slot, work, tokens, worker, wrote, left>>

Spawns(g) ==
  /\ active' = g
  /\ shared' = [live |-> TRUE, gen |-> g.gen, latest |-> 0, ticket |-> NoTicket]
  /\ worker' = [at |-> "idle", id |-> 0, epoch |-> 0, gen |-> g.gen, scope |-> g.scope]
  /\ commands' = <<>>

\* start_autoscan binds the revision it just read, under a command lease.
StartBegins(target) ==
  /\ GateFree /\ mutation.at = "none" /\ revision # Deleted
  /\ Uses("start")
  /\ LET g == [gen |-> shared.gen + 1, scope |-> [rev |-> revision, target |-> target],
               auto |-> revision \in Unattended]
     IN IF active = NoGeneration
        THEN Spawns(g) /\ UNCHANGED <<exec, gate>>
        ELSE Deactivates /\ gate' = [for |-> "start", next |-> g] /\ UNCHANGED worker
  /\ UNCHANGED <<jobVars, result, runs, slot, work, tokens, wrote>>

Joined ==
  /\ ~GateFree /\ worker.at = "off"
  /\ gate' = [for |-> "nobody", next |-> NoGeneration]
  /\ IF gate.for = "start" THEN Spawns(gate.next)
     ELSE UNCHANGED <<active, shared, workerVars>>
  /\ mutation' = IF gate.for = "mutation" THEN [mutation EXCEPT !.at = "expire"] ELSE mutation
  /\ UNCHANGED <<revision, evidenceVars, runs, slot, work, tokens, wrote, left>>

(********************************** the worker ******************************)
ObserverKeeps == UNCHANGED <<jobVars, result, runs, slot, work, active, gate, wrote>>
WorkerKeeps == ObserverKeeps /\ UNCHANGED left

\* publish_trigger: an observation of an inactive generation ends the worker; one that would
\* overlap an unfinished ticket ends that ticket and the generation, in three sections of the
\* code.  They are one step here, which is never taken: TicketIsAwaited below.
Observe ==
  /\ worker.at = "idle" /\ Uses("ticket")
  /\ IF ~shared.live THEN worker' = [worker EXCEPT !.at = "off"] /\ UNCHANGED <<exec, shared>>
     ELSE IF shared.ticket.at \in Pending
     THEN /\ worker' = [worker EXCEPT !.at = "off"]
          /\ exec' = Ended(worker.scope, shared.ticket.epoch)
          /\ shared' = [shared EXCEPT !.live = FALSE, !.ticket = NoTicket]
     ELSE /\ worker' = [worker EXCEPT !.at = "observed", !.id = @ + 1]
          /\ UNCHANGED <<exec, shared>>
  /\ ObserverKeeps /\ UNCHANGED <<tokens, commands>>

\* Mutant: evidence that is fresh stays executable until the trigger is taken up.
DirtyLater ==
  /\ worker.at = "observed"
  /\ exec' = IF exec[worker.scope].at = "fresh" THEN exec ELSE Begun(exec, worker.scope, 0)
  /\ worker' = [worker EXCEPT !.at = "dirtied", !.epoch = exec'[worker.scope].epoch]
  /\ WorkerKeeps /\ UNCHANGED <<tokens, shared, commands>>

\* The evidence is dirtied before anything can be seen of the trigger.
Dirty ==
  /\ worker.at = "observed"
  /\ exec' = Begun(exec, worker.scope, 0)
  /\ worker' = [worker EXCEPT !.at = "dirtied", !.epoch = exec'[worker.scope].epoch]
  /\ WorkerKeeps /\ UNCHANGED <<tokens, shared, commands>>

\* The authority to apply is revoked; the binding must still be the registry's, and the
\* generation live: if not, the verification just begun is ended again.
Trigger ==
  /\ worker.at = "dirtied"
  /\ tokens' = Revoked(worker.scope)
  /\ IF revision = worker.scope.rev /\ shared.live
     THEN /\ worker' = [worker EXCEPT !.at = "waiting"]
          /\ shared' = [shared EXCEPT !.latest = worker.id,
                          !.ticket = [at |-> "awaiting", id |-> worker.id,
                                      epoch |-> worker.epoch, run |-> 0]]
          /\ UNCHANGED exec
     ELSE /\ worker' = [worker EXCEPT !.at = "off"]
          /\ exec' = Ended(worker.scope, worker.epoch)
          /\ shared' = IF revision = worker.scope.rev THEN shared
                       ELSE [shared EXCEPT !.live = FALSE, !.ticket = NoTicket]
  /\ WorkerKeeps /\ UNCHANGED commands

\* A command ends the wait for the ticket it names, or the worker.
Hear ==
  /\ worker.at \in {"idle", "waiting"} /\ commands # <<>>
  /\ commands' = Tail(commands)
  /\ worker' = [worker EXCEPT !.at = IF Head(commands) = 0 THEN "off"
                                     ELSE IF Head(commands) = worker.id THEN "idle" ELSE @]
  /\ WorkerKeeps /\ UNCHANGED <<exec, tokens, shared>>

(************************************ compare *******************************)
\* review_compare: a person asks, or the desktop takes up the pending trigger; the permit of
\* a trigger is issued once and handed out again while nothing has launched.
ReviewCompare(target) ==
  /\ mutation.at = "none" /\ revision # Deleted
  /\ Issues([NoToken EXCEPT !.kind = "compare", !.scope = [rev |-> revision, target |-> target]])
  /\ UNCHANGED <<jobVars, evidenceVars, runs, slot, work, scanVars, workerVars, wrote, left>>

ReviewTrigger ==
  /\ GateFree /\ active # NoGeneration
  /\ mutation.at = "none" /\ revision = active.scope.rev
  /\ shared.ticket.at \in {"awaiting", "permitted"}
  /\ Issues([NoToken EXCEPT !.kind = "compare", !.scope = active.scope, !.permit = TicketPermit])
  /\ shared' = [shared EXCEPT !.ticket.at = "permitted"]
  /\ UNCHANGED <<jobVars, evidenceVars, runs, slot, work, active, gate, workerVars, wrote, left>>

\* Any refusal of the review ends the trigger, whatever has become of it.
ReviewTriggerFails ==
  /\ GateFree /\ active # NoGeneration /\ shared.ticket.at \in Pending
  /\ Terminalize
  /\ UNCHANGED <<jobVars, result, runs, slot, work, tokens, active, gate, worker, wrote, left>>

Becomes(t, at) == work' = [work EXCEPT ![t].at = at]
Leased(t) == work[t].at \notin {"idle", "burnt"}

\* The token is burnt before anything else is looked at.
TakeCompare(t, k) ==
  /\ Unused(t)
  /\ k \in tokens /\ k.kind = "compare"
  /\ tokens' = tokens \ {k}
  /\ work' = [work EXCEPT ![t] = [at |-> "burnt", token |-> k, run |-> 0]]
  /\ UNCHANGED <<jobVars, evidenceVars, runs, slot, scanVars, workerVars, wrote, left>>

\* Under its lease the task reads the registry once more and takes the run slot, and the
\* authority to apply older evidence is revoked.
StartCompare(t) ==
  /\ work[t].at = "burnt" /\ mutation.at = "none"
  /\ revision = work[t].token.scope.rev /\ slot = NoTask
  /\ Uses("compare") /\ runs < MaxRuns /\ runs' = runs + 1
  /\ slot' = t
  /\ tokens' = Revoked(work[t].token.scope)
  /\ work' = [work EXCEPT ![t].at = "started", ![t].run = runs + 1]
  /\ UNCHANGED <<jobVars, evidenceVars, scanVars, workerVars, wrote>>

\* mark_compare_launched for a permit, begin_verification for a person.
LaunchManual(t) ==
  /\ work[t].at = "started" /\ work[t].token.permit = NoPermit
  /\ exec' = Begun(exec, work[t].token.scope, work[t].run)
  /\ work' = [work EXCEPT ![t].at = "comparing",
                          ![t].token.permit.epoch = exec'[work[t].token.scope].epoch]
  /\ UNCHANGED shared

CanLaunch(t) ==
  /\ OwnsPermit(work[t].token.permit) /\ shared.ticket.at = "permitted"
  /\ exec[active.scope].at = "awaiting" /\ exec[active.scope].epoch = work[t].token.permit.epoch
LaunchPermitted(t) ==
  /\ work[t].at = "started" /\ work[t].token.permit.gen # 0
  /\ GateFree /\ CanLaunch(t)
  /\ exec' = [exec EXCEPT ![active.scope].at = "comparing", ![active.scope].run = work[t].run]
  /\ shared' = [shared EXCEPT !.ticket.at = "running"]
  /\ Becomes(t, "comparing")

Launch(t) ==
  /\ LaunchManual(t) \/ LaunchPermitted(t)
  /\ result' = [result EXCEPT ![work[t].run] = [scope |-> work[t].token.scope, kept |-> FALSE,
                                               epoch |-> exec'[work[t].token.scope].epoch,
                                               wrote |-> wrote[work[t].token.scope.rev]]]
  /\ UNCHANGED <<jobVars, runs, slot, tokens, active, gate, workerVars, wrote, left>>

\* The result is published under the verification that launched the run, or not at all.
MayPublish(t) ==
  LET s == work[t].token.scope IN
  /\ revision = s.rev
  /\ exec[s] = [at |-> "comparing", epoch |-> work[t].token.permit.epoch, run |-> work[t].run]
Publish(t) ==
  /\ exec' = [exec EXCEPT ![work[t].token.scope].at = "fresh"]
  /\ result' = [result EXCEPT ![work[t].run].kept = TRUE]

EndsRun(t) == work' = [work EXCEPT ![t] = NoWork] /\ slot' = IF slot = t THEN NoTask ELSE slot

PublishManual(t) ==
  /\ work[t].at = "comparing" /\ work[t].token.permit.gen = 0
  /\ MayPublish(t) /\ Publish(t)
  /\ EndsRun(t)
  /\ UNCHANGED <<jobVars, runs, tokens, scanVars, workerVars, wrote, left>>

PublishPermitted(t) ==
  /\ work[t].at = "comparing" /\ work[t].token.permit.gen # 0
  /\ GateFree /\ OwnsPermit(work[t].token.permit) /\ shared.ticket.at = "running"
  /\ MayPublish(t) /\ Publish(t)
  /\ shared' = [shared EXCEPT !.ticket = IF active.auto
                  THEN [@ EXCEPT !.at = "completed", !.run = work[t].run] ELSE NoTicket]
  /\ commands' = Append(commands, shared.ticket.id)
  /\ EndsRun(t)
  /\ UNCHANGED <<jobVars, runs, tokens, active, gate, worker, wrote, left>>

\* Refused or failed anywhere: the verification the task owns is ended, and its leases.
CompareFails(t) ==
  /\ work[t].at \in {"burnt", "started", "comparing"}
  /\ work[t].token.kind = "compare"
  /\ LET permit == work[t].token.permit IN
     IF work[t].at = "comparing" /\ permit.gen = 0
     THEN /\ exec' = Ended(work[t].token.scope, permit.epoch)
          /\ UNCHANGED <<shared, commands>>
     ELSE Abandons(permit)
  /\ EndsRun(t)
  /\ UNCHANGED <<jobVars, result, runs, tokens, active, gate, worker, wrote, left>>

(************************************* apply ********************************)
\* review_apply binds a challenge to fresh evidence; approving it makes the authorization.
ReviewApply(run) ==
  /\ mutation.at = "none" /\ IsFresh(run) /\ revision = result[run].scope.rev
  /\ Issues([kind |-> "review", scope |-> result[run].scope, run |-> run,
              permit |-> NoPermit, saves |-> left["save"]])
  /\ UNCHANGED <<jobVars, evidenceVars, runs, slot, work, scanVars, workerVars, wrote, left>>

Approve(k) ==
  /\ k \in tokens /\ k.kind = "review"
  /\ tokens' = (tokens \ {k}) \cup {[k EXCEPT !.kind = "interactive"]}
  /\ UNCHANGED <<jobVars, evidenceVars, runs, slot, work, scanVars, workerVars, wrote, left>>

\* authorize_autoscan_apply: the completed ticket is claimed, the roots probed, and the
\* authorization issued while the claim is still the generation's.
Claim(t) ==
  /\ Unused(t) /\ GateFree /\ mutation.at = "none"
  /\ active # NoGeneration /\ active.auto /\ shared.ticket.at = "completed"
  /\ shared' = [shared EXCEPT !.ticket.at = "claimed"]
  /\ work' = [work EXCEPT ![t] =
       [at |-> "claimed", run |-> 0,
        token |-> [kind |-> "auto", scope |-> active.scope, run |-> shared.ticket.run,
                   permit |-> TicketPermit, saves |-> left["save"]]]]
  /\ UNCHANGED <<jobVars, evidenceVars, runs, slot, tokens, active, gate, workerVars, wrote, left>>

TicketIs(at, permit) ==
  /\ Binds(permit) /\ shared.ticket.at = at /\ shared.ticket.id = permit.id

Authorize(t) ==
  /\ work[t].at = "claimed" /\ GateFree
  /\ LET k == work[t].token IN
     /\ revision = k.scope.rev /\ TicketIs("claimed", k.permit)
     /\ IF IsFresh(k.run)
        THEN /\ shared' = [shared EXCEPT !.ticket.at = "authorized"]
             /\ Issues(k)
        ELSE shared' = [shared EXCEPT !.ticket = NoTicket] /\ UNCHANGED tokens
  /\ work' = [work EXCEPT ![t] = NoWork]
  /\ UNCHANGED <<jobVars, evidenceVars, runs, slot, active, gate, workerVars, wrote, left>>

\* apply_job: lease, then burn the token, then read everything again; what it reads before
\* the reservation it reads once more there, so that only the refusal shows here.
TakeApply(t, k) ==
  /\ Unused(t) /\ mutation.at = "none"
  /\ k \in tokens /\ k.kind \in {"interactive", "auto"}
  /\ tokens' = tokens \ {k}
  /\ work' = [work EXCEPT ![t] = [at |-> "prepared", token |-> k, run |-> 0]]
  /\ UNCHANGED <<jobVars, evidenceVars, runs, slot, scanVars, workerVars, wrote, left>>

\* A refusal before the run: nothing was written and the evidence stays.
ApplyRefused(t) ==
  /\ work[t].at \in {"claimed", "prepared"}
  /\ work' = [work EXCEPT ![t] = NoWork]
  /\ UNCHANGED <<jobVars, evidenceVars, runs, slot, tokens, scanVars, workerVars, wrote, left>>

\* The reservation: the registry again, then freshness and the slot under one lock.
MayReserve(t) ==
  LET k == work[t].token IN
  revision = k.scope.rev /\ IsFresh(k.run) /\ slot = NoTask

Reserves(t) == slot' = t /\ Becomes(t, "applying")

ReserveInteractive(t) ==
  /\ work[t].at = "prepared" /\ work[t].token.kind = "interactive"
  /\ MayReserve(t) /\ Reserves(t)
  /\ UNCHANGED shared

\* Under the gate and the shared status, and the ticket is spent even if the slot is refused.
ReserveUnattended(t) ==
  /\ work[t].at = "prepared" /\ work[t].token.kind = "auto"
  /\ GateFree /\ TicketIs("authorized", work[t].token.permit)
  /\ shared' = [shared EXCEPT !.ticket = NoTicket]
  /\ IF MayReserve(t) THEN Reserves(t)
     ELSE work' = [work EXCEPT ![t] = NoWork] /\ UNCHANGED slot

Reserve(t) ==
  /\ ReserveInteractive(t) \/ ReserveUnattended(t)
  /\ UNCHANGED <<jobVars, evidenceVars, runs, tokens, active, gate, workerVars, wrote, left>>

StartWrites(t) ==
  /\ work[t].at = "applying"
  /\ Becomes(t, "writing")
  /\ wrote' = [wrote EXCEPT ![work[t].token.scope.rev] = @ + 1]
  /\ UNCHANGED <<jobVars, evidenceVars, runs, slot, tokens, scanVars, workerVars, left>>

\* Mutant: the slot is free before the guard has expired the evidence.
ReleaseFirst(t) ==
  /\ work[t].at = "writing" /\ slot = t
  /\ slot' = NoTask
  /\ UNCHANGED <<jobVars, exec, result, runs, work, tokens, scanVars, workerVars, wrote, left>>

\* The guard expires the evidence of every target of the revision, before the slot is free.
ExpireWritten(t) ==
  /\ work[t].at = "writing"
  /\ exec' = Expired(exec, {work[t].token.scope.rev})
  /\ Becomes(t, "written")
  /\ UNCHANGED <<jobVars, result, runs, slot, tokens, scanVars, workerVars, wrote, left>>

ApplyEnds(t) ==
  /\ work[t].at \in {"applying", "written"}
  /\ EndsRun(t)
  /\ UNCHANGED <<jobVars, evidenceVars, runs, tokens, scanVars, workerVars, wrote, left>>

(************************** mutations of the registry ***********************)
NothingRuns == slot = NoTask /\ mutation.at = "none" /\ \A t \in Task : ~Leased(t)

\* A save that changes the configuration, or a deletion, and its effects in their order.
SaveJob(new) ==
  /\ NothingRuns /\ Uses("save")
  /\ revision \notin {new, Deleted}
  /\ revision' = new /\ mutation' = [at |-> "stop", old |-> revision]
  /\ tokens' = {}
  /\ UNCHANGED <<evidenceVars, runs, slot, work, scanVars, workerVars, wrote>>

StopOnSave ==
  /\ mutation.at = "stop" /\ GateFree
  /\ IF active = NoGeneration
     THEN /\ mutation' = [mutation EXCEPT !.at = "expire"]
          /\ UNCHANGED <<exec, scanVars, commands>>
     ELSE /\ Deactivates
          /\ gate' = [for |-> "mutation", next |-> NoGeneration]
          /\ mutation' = [mutation EXCEPT !.at = "stopping"]
  /\ UNCHANGED <<revision, result, runs, slot, work, tokens, worker, wrote, left>>

ExpireOnSave ==
  /\ mutation.at = "expire"
  /\ exec' = Expired(exec, IF revision = Deleted THEN Rev ELSE {mutation.old})
  /\ mutation' = [at |-> "none", old |-> Deleted]
  /\ UNCHANGED <<revision, result, runs, slot, work, tokens, scanVars, workerVars, wrote, left>>

\* Somebody edits the file by hand: no effect but the revision the next read finds.
EditByHand(new) ==
  /\ Uses("hand")
  /\ revision \notin {new, Deleted} /\ revision' = new
  /\ UNCHANGED <<mutation, evidenceVars, runs, slot, work, tokens, scanVars, workerVars, wrote>>

AutoNext ==
  \/ \E t \in Task :
       \/ \E k \in tokens : TakeCompare(t, k) \/ TakeApply(t, k)
       \/ StartCompare(t) \/ Launch(t)
       \/ PublishManual(t) \/ PublishPermitted(t) \/ CompareFails(t)
       \/ Claim(t) \/ Authorize(t) \/ ApplyRefused(t) \/ Reserve(t)
       \/ StartWrites(t) \/ ExpireWritten(t) \/ ApplyEnds(t)
  \/ \E k \in tokens : Approve(k) \/ Expires(k)
  \/ \E r \in 1..MaxRuns : ReviewApply(r) \/ Forget(r)
  \/ \E g \in Target : ReviewCompare(g) \/ StartBegins(g)
  \/ ReviewTrigger \/ ReviewTriggerFails \/ Decline \/ StopBegins \/ Joined
  \/ Observe \/ Dirty \/ Trigger \/ Hear
  \/ \E new \in Rev \cup {Deleted} : SaveJob(new)
  \/ StopOnSave \/ ExpireOnSave
  \/ \E new \in Rev : EditByHand(new)

AutoSpec == AutoInit /\ [][AutoNext]_autoVars
-----------------------------------------------------------------------------
(********************************* properties *******************************)
Permit == [gen : Nat, id : Nat, epoch : Nat]
Token == [kind : {"none", "compare", "review", "interactive", "auto"}, scope : Scope, run : Nat,
          permit : Permit, saves : Nat]
Generation == [gen : Nat, scope : Scope, auto : BOOLEAN]

ExecType == [Scope -> [at : {"none", "fresh", "over"} \cup Unfinished, epoch : Nat, run : Nat]]
ResultType == [1..MaxRuns -> [scope : Scope, kept : BOOLEAN, epoch : Nat, wrote : Nat]]
WorkType ==
  [Task -> [at : {"idle", "burnt", "started", "comparing", "claimed", "prepared", "applying",
                  "writing", "written"}, token : Token, run : Nat]]
TicketType ==
  [at : {"idle", "completed", "claimed", "authorized"} \cup Pending, id : Nat, epoch : Nat, run : Nat]
SharedType == [live : BOOLEAN, gen : Nat, latest : Nat, ticket : TicketType]
GateType ==
  [for : {"nobody", "stop", "start", "mutation"}, next : Generation \cup {NoGeneration}]
WorkerType ==
  [at : {"off", "idle", "observed", "dirtied", "waiting"}, id : Nat, epoch : Nat, gen : Nat,
   scope : Scope]

AutoTypeOK ==
  /\ revision \in Rev \cup {Deleted}
  /\ exec \in ExecType /\ result \in ResultType
  /\ runs \in 0..MaxRuns /\ slot \in Task \cup {NoTask}
  /\ work \in WorkType /\ tokens \subseteq Token
  /\ active \in Generation \cup {NoGeneration}
  /\ shared \in SharedType /\ gate \in GateType
  /\ worker \in WorkerType /\ commands \in Seq(Nat)
  /\ wrote \in [Rev -> Nat] /\ left \in [Chance -> Nat]

\* No verification is left open with nobody to end it: an open one belongs to the pending
\* ticket, to the worker about to hand it over, or to a compare that runs for it.
NoOrphanVerification ==
  \A s \in Scope : exec[s].at \in Unfinished =>
    \/ /\ active # NoGeneration /\ active.scope = s
       /\ shared.ticket.at \in Pending /\ shared.ticket.epoch = exec[s].epoch
    \/ worker.at = "dirtied" /\ worker.scope = s /\ worker.epoch = exec[s].epoch
    \/ \E t \in Task : /\ work[t].at = "comparing" /\ work[t].token.scope = s
                       /\ work[t].token.permit.epoch = exec[s].epoch

\* A worker that waits for its ticket can still be told what became of it: the ticket is
\* pending, or the word is on its way.
WorkerIsTold ==
  worker.at = "waiting" =>
    \/ active # NoGeneration /\ shared.ticket.at \in Pending /\ shared.ticket.id = worker.id
    \/ \E i \in DOMAIN commands : commands[i] \in {0, worker.id}

\* A pending ticket is the one its worker waits for, and no word of its end is under way: the
\* worker neither leaves it nor publishes another over it.
TicketIsAwaited ==
  shared.ticket.at \in Pending =>
    /\ active # NoGeneration /\ worker.at = "waiting" /\ worker.id = shared.ticket.id
    /\ \A i \in DOMAIN commands : commands[i] \notin {0, worker.id}

Starts(t) == work[t].at = "prepared" /\ work'[t].at = "applying"

\* An apply that writes uses a compare that began after the last apply of its revision that
\* wrote: no result is applied twice, and none survives the writes of another target.
ComparedAfterWrites ==
  [][\A t \in Task : work[t].at = "applying" /\ work'[t].at = "writing" =>
       result[work[t].token.run].wrote = wrote[work[t].token.scope.rev]]_autoVars

\* An unattended apply starts only for the latest ticket of the live generation, and never
\* once the worker has acted on a newer change.
UnattendedIsCurrent ==
  [][\A t \in Task : Starts(t) /\ work[t].token.kind = "auto" =>
       /\ shared.live /\ shared.gen = work[t].token.permit.gen
       /\ worker.id = IF worker.at = "observed" THEN work[t].token.permit.id + 1
                      ELSE work[t].token.permit.id]_autoVars

\* No apply starts on an authorization given before the program last changed the job.
NoApplyAcrossASave ==
  [][\A t \in Task : Starts(t) => work[t].token.saves = left["save"]]_autoVars
=============================================================================
