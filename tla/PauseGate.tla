------------------------------ MODULE PauseGate ------------------------------
(***************************************************************************)
(* The cooperation point every worker of a run passes between two files    *)
(* and between two chunks (services/obs/progress.rs, RunCtx::checkpoint):  *)
(* a pause holds the worker there, a cancellation ends it. The workers     *)
(* share two switches the user throws and one flag that is meant to let    *)
(* one of them speak for all when it reports Paused and Resumed.           *)
(*                                                                         *)
(* Every load, swap and emission is a step of its own. The atomics are     *)
(* taken as sequentially consistent; the clock that adds up the paused     *)
(* time is left out.                                                       *)
(***************************************************************************)
EXTENDS Naturals, FiniteSets

CONSTANTS
  Worker,
  MaxPauses  \* bound: how often the user pauses

ASSUME PauseAssumption == IsFiniteSet(Worker) /\ MaxPauses \in Nat

VARIABLES
  paused, cancel,    \* RunCtl: the user's switches
  announced,         \* RunCtl.pause_announced
  place,                \* where each worker is
  pausedEvents, resumedEvents,  \* events emitted so far
  pauses,            \* history: how often the user paused
  held               \* history: the workers that came to the gate in the pause still in force

switches == <<paused, cancel>>
events == <<pausedEvents, resumedEvents>>
gateVars == <<switches, announced, place, events, pauses, held>>

Places == {"working", "arrived", "admitted", "pausing", "announcing", "waiting",
           "napping", "leaving", "resuming", "stopped"}

GateInit ==
  /\ paused = FALSE /\ cancel = FALSE /\ announced = FALSE
  /\ place = [w \in Worker |-> "working"]
  /\ pausedEvents = 0 /\ resumedEvents = 0
  /\ pauses = 0
  /\ held = {}

Go(w, from, to) == place[w] = from /\ place' = [place EXCEPT ![w] = to]

-----------------------------------------------------------------------------
(* The user.                                                               *)

Pause ==
  /\ ~paused
  /\ pauses < MaxPauses
  /\ paused' = TRUE
  /\ pauses' = pauses + 1
  /\ UNCHANGED <<cancel, announced, place, events, held>>

Resume ==
  /\ paused
  /\ paused' = FALSE
  /\ held' = {}
  /\ UNCHANGED <<cancel, announced, place, events, pauses>>

Cancel ==
  /\ ~cancel
  /\ cancel' = TRUE
  /\ UNCHANGED <<paused, announced, place, events, pauses, held>>

-----------------------------------------------------------------------------
(* A worker at the gate.                                                   *)

Arrive(w) ==
  /\ Go(w, "working", "arrived")
  /\ held' = IF paused THEN held \cup {w} ELSE held
  /\ UNCHANGED <<switches, announced, events, pauses>>

LoadCancel(w) ==
  /\ Go(w, "arrived", IF cancel THEN "stopped" ELSE "admitted")
  /\ UNCHANGED <<switches, announced, events, pauses, held>>

LoadPaused(w) ==
  /\ Go(w, "admitted", IF paused THEN "pausing" ELSE "working")
  /\ UNCHANGED <<switches, announced, events, pauses, held>>

RaiseFlag(w) ==
  /\ Go(w, "pausing", IF announced THEN "waiting" ELSE "announcing")
  /\ announced' = TRUE
  /\ UNCHANGED <<switches, events, pauses, held>>

EmitPaused(w) ==
  /\ Go(w, "announcing", "waiting")
  /\ pausedEvents' = pausedEvents + 1
  /\ UNCHANGED <<switches, announced, resumedEvents, pauses, held>>

Wait(w) ==
  /\ Go(w, "waiting", IF paused THEN "napping" ELSE "leaving")
  /\ UNCHANGED <<switches, announced, events, pauses, held>>

\* (Mutant: a paused worker does not look for a cancellation.)
NapBlindly(w) ==
  /\ Go(w, "napping", "waiting")
  /\ UNCHANGED <<switches, announced, events, pauses, held>>

Nap(w) ==
  /\ Go(w, "napping", IF cancel THEN "stopped" ELSE "waiting")
  /\ UNCHANGED <<switches, announced, events, pauses, held>>

LowerFlag(w) ==
  /\ Go(w, "leaving", IF announced THEN "resuming" ELSE "working")
  /\ announced' = FALSE
  /\ UNCHANGED <<switches, events, pauses, held>>

EmitResumed(w) ==
  /\ Go(w, "resuming", "working")
  /\ resumedEvents' = resumedEvents + 1
  /\ UNCHANGED <<switches, announced, pausedEvents, pauses, held>>

AtGate(w) ==
  \/ LoadCancel(w) \/ LoadPaused(w)
  \/ RaiseFlag(w) \/ EmitPaused(w)
  \/ Wait(w) \/ Nap(w)
  \/ LowerFlag(w) \/ EmitResumed(w)

GateNext ==
  \/ Pause \/ Resume \/ Cancel
  \/ \E w \in Worker : Arrive(w) \/ AtGate(w)

GateSpec == GateInit /\ [][GateNext]_gateVars

(***************************************************************************)
(* Workers are threads: each is scheduled, and comes back to the gate      *)
(* after a bounded piece of work. Nothing is assumed of the user.          *)
(***************************************************************************)
GateFairSpec == GateSpec /\ \A w \in Worker : WF_gateVars(Arrive(w) \/ AtGate(w))

-----------------------------------------------------------------------------
\* Every variable has its type.
GateTypeOK ==
  /\ paused \in BOOLEAN /\ cancel \in BOOLEAN /\ announced \in BOOLEAN
  /\ place \in [Worker -> Places]
  /\ pausedEvents \in Nat /\ resumedEvents \in Nat
  /\ pauses \in 0 .. MaxPauses
  /\ held \subseteq Worker

\* A worker that came to the gate in a pause does not work again before that pause
\* is over.
NoWorkWhilePaused == [][\A w \in held : place[w] # "working" => place'[w] # "working"]_gateVars

\* When every worker is back at work and nobody cancelled, each reported pause has
\* its reported resumption, and no stale flag silences the next one.
ReportsBalance ==
  (\A w \in Worker : place[w] = "working") /\ ~cancel =>
    pausedEvents = resumedEvents /\ ~announced

\* "Paused/Resumed are each emitted exactly once (CAS dedup)" (progress.rs:80): no
\* more reports than the user made pauses.
ReportedOncePerPause == pausedEvents <= pauses

\* A cancellation ends every worker, also one that is paused.
CancelGetsThrough == cancel ~> \A w \in Worker : place[w] = "stopped"
=============================================================================
