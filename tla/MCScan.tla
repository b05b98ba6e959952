-------------------------------- MODULE MCScan --------------------------------
(* Instances for TLC of what a run rests on: the transaction of a file at the root,    *)
(* and the scan; one of them moves, the other stands still.                            *)
EXTENDS MCFileTransaction, ScanCache

VARIABLE part

(* A file system that keeps even mtimes: 2 and 3 look alike.                           *)
Even == [t \in 0..20 |-> 2 * (t \div 2)]
Stamps == ("A" :> 2) @@ ("B" :> 3)
Sizes == ("A" :> 1) @@ ("B" :> 1) @@ ("C" :> 0)
Held0(what, t) == [of |-> what, raw |-> t, meant |-> t, id |-> 0]
Drives == [v \in {"v1", "v2"} |->
            [p \in {"x", "z"} |-> IF p = "x" THEN Held0(IF v = "v1" THEN "A" ELSE "B", 6) ELSE Nobody]]
Opt(hash, sampled, cached, domain) == [hash |-> hash, sampled |-> sampled, cached |-> cached, domain |-> domain]
Ways == {Opt(TRUE, FALSE, TRUE, {"x", "z"}), Opt(TRUE, TRUE, TRUE, {"x", "z"}),
         Opt(TRUE, FALSE, TRUE, {"z"}), Opt(TRUE, FALSE, FALSE, {"x", "z"}), Opt(FALSE, FALSE, TRUE, {"x", "z"})}

Left(edits, published, scans, troubles) ==
  [edits |-> edits, published |-> published, scans |-> scans, troubles |-> troubles]
Budgets == {Left(0, 2, 2, 0), Left(0, 1, 2, 1), Left(1, 1, 2, 0), Left(1, 0, 2, 1)}

MCInit ==
  /\ Init /\ ScanInit /\ part \in {"files", "scan"}
  /\ part = "scan" \/ (lane = "local" /\ volume = "v1" /\ budget = Left(0, 2, 2, 0))
MCNext ==
  /\ UNCHANGED part
  /\ \/ part = "files" /\ Next /\ UNCHANGED scanVars
     \/ part = "scan" /\ ScanNext /\ UNCHANGED vars
MCSpec == MCInit /\ [][MCNext]_<<vars, scanVars, part>>
===============================================================================
