------------------------------ MODULE MCStores ------------------------------
(* Instances of what keeps and publishes files and the records of the runs, for TLC:  *)
(* one of the parts moves, the others stand still.                                    *)
EXTENDS VersionStore, Trash, Backend, RunHistory

VARIABLE part
Steps == <<<<1, 1>>, <<2, 3>>>>
Symmetry == Permutations(Large)

\* A run of this release beside one of an earlier index, and a history at the other place.
Past == <<"g">>
Other == <<"h">>
May(a, p, s) == [ages |-> a, prunes |-> p, slips |-> s]
Few == {May(1, 1, 0), May(0, 1, 1)}
None == {May(0, 0, 0)}

Init ==
  /\ VersionInit /\ TrashInit /\ BackendInit /\ HistoryInit
  /\ part \in {"versions", "trash", "backend", "history"}
  /\ part = "versions" \/ \A p \in File : here[p] = Gone
  /\ part = "backend" \/ (entry = Nothing /\ protocol = "local" /\ replace = [w \in Writer |-> FALSE])
  /\ part = "history" \/ (listing["after"] = <<>> /\ budget = CHOOSE b \in Budgets : TRUE)
  /\ budget.slips = 0 \/ listing["after"] = <<>>

Next ==
  /\ UNCHANGED part
  /\ \/ part = "versions" /\ VersionNext /\ UNCHANGED <<trashVars, backendVars, historyVars>>
     \/ part = "trash" /\ TrashNext /\ UNCHANGED <<versionVars, backendVars, historyVars>>
     \/ part = "backend" /\ BackendNext /\ UNCHANGED <<versionVars, trashVars, historyVars>>
     \/ part = "history" /\ HistoryNext /\ UNCHANGED <<versionVars, trashVars, backendVars>>

Spec == Init /\ [][Next]_<<versionVars, trashVars, backendVars, historyVars, part>>
=============================================================================
