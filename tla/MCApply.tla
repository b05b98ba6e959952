------------------------------- MODULE MCApply -------------------------------
(* Instances of an Apply run, for TLC: the transactions of files, the pool of workers  *)
(* around them, or the run that has a peer do both; the others stand still.            *)
EXTENDS MCFileTransaction, ApplyPool, PeerPackage

VARIABLE part

(* d holds b, x and s; s holds y.                                                     *)
Parents == [p \in {"d", "s", "a", "b", "x", "y"} |->
              IF p \in {"d", "a"} THEN "/" ELSE IF p = "y" THEN "s" ELSE "d"]
Start == [side \in {"source", "target"} |->
            [p \in {"d", "s", "a", "b", "x", "y"} |->
               IF side = "source" THEN "none"
               ELSE IF p \in {"d", "s"} THEN "dir" ELSE IF p \in {"a", "y"} THEN "old" ELSE "none"]]
O(act, path) == [act |-> act, side |-> "target", path |-> path, from |-> path]
Mv(from, path) == [act |-> "move", side |-> "target", path |-> path, from |-> from]
OnSource(o) == [o EXCEPT !.side = "source"]

(* Plans that run in every class, with two copies below one directory or a directory  *)
(* at a path to replace or delete; every plan of two operations; and every plan of    *)
(* three with a move and an update of its source.                                     *)
Curated == {
  <<O("copy", "x"), O("copy", "y"), O("note", "b")>>,
  <<O("update", "a"), Mv("a", "b"), O("copy", "x")>>,
  <<O("deldir", "d"), O("delete", "y"), O("deldir", "s")>>,
  <<O("deldir", "d"), Mv("a", "x"), O("chmod", "y")>>,
  <<O("update", "s"), O("copy", "y")>>,
  <<O("delete", "s"), O("copy", "b")>>,
  <<OnSource(O("copy", "x")), O("delete", "a")>>}
Small == {O("copy", "b"), O("update", "a"), O("delete", "a"), O("deldir", "d"), Mv("a", "b"),
          Mv("b", "a"), Mv("a", "a"), Mv("a", "x")}
Triples == {p \in [1..3 -> Small] : {Mv("a", "b"), O("update", "a")} \subseteq {p[i] : i \in 1..3}}
Arriving == Curated \cup {<<p, q>> : p, q \in Small} \cup Triples

(* A large file whose base has one of its pieces, or another one, and a small one.    *)
TheOrder == <<"big", "small">>
Hold(big, small) == [n \in {"big", "small"} |-> IF n = "big" THEN big ELSE small]
TheRoots == {[source |-> Hold(<<"p", "q">>, <<"q">>), peer |-> Hold(<<"p", "p">>, << >>)],
             [source |-> Hold(<<"p", "q">>, <<"q">>), peer |-> Hold(<<"q">>, <<"q">>)]}

ApplyInit ==
  /\ Init /\ PoolInit /\ PeerInit /\ part \in {"files", "pool", "peer"}
  /\ versioned = {} \/ (versioned = Side /\ plan \in Curated)
  /\ part = "pool" \/ (dry /\ versioned = {} /\ plan = <<O("copy", "b"), O("copy", "b")>>)
  /\ part = "peer" \/ (tier = "none" /\ peer["big"] = <<"q">>)
ApplyNext ==
  /\ UNCHANGED part
  /\ \/ part = "files" /\ Next /\ UNCHANGED <<poolVars, peerVars>>
     \/ part = "pool" /\ PoolNext /\ UNCHANGED <<vars, peerVars>>
     \/ part = "peer" /\ PeerNext /\ UNCHANGED <<vars, poolVars>>
ApplySpec == ApplyInit /\ [][ApplyNext]_<<vars, poolVars, peerVars, part>>
=============================================================================
