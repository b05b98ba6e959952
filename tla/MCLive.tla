------------------------------- MODULE MCLive -------------------------------
(* The components whose promise is that something happens, for TLC: the lock of a root      *)
(* under a client that does not wait as the code does, the pause button, and the watcher of  *)
(* AutoScan. One of them moves, the others stand still, and each has the fairness of its own *)
(* specification.                                                                            *)
EXTENDS MCRootLock, PauseGate, Watch

VARIABLE part

LiveInit == Init /\ GateInit /\ WatchInit /\ part \in {"lock", "pause", "watch"}

Locking(A) == part = "lock" /\ A /\ UNCHANGED <<gateVars, watchVars, part>>
Pausing(A) == part = "pause" /\ A /\ UNCHANGED <<vars, watchVars, part>>
Watching(A) == part = "watch" /\ A /\ UNCHANGED <<vars, gateVars, part>>

LiveNext == Locking(Next) \/ Pausing(GateNext) \/ Watching(WatchNext)

liveVars == <<vars, gateVars, watchVars, part>>

LiveSpec ==
  /\ LiveInit /\ [][LiveNext]_liveVars
  /\ \A p \in Proc : WF_vars(Locking(Step(p))) /\ WF_vars(Locking(NoticeLoss(p)))
  /\ \A w \in Worker : WF_gateVars(Pausing(Arrive(w) \/ AtGate(w)))
  /\ \A s \in Streams : WF_watchVars(Watching(Deliver(s)))
  /\ WF_watchVars(Watching(WorkerTurns)) /\ WF_watchVars(Watching(CompareTurns))
  /\ WF_watchVars(Watching(QuietPasses)) /\ WF_watchVars(Watching(IntervalPasses))
=============================================================================
