-------------------------- MODULE MCFileTransaction --------------------------
(* Plans for FileTransaction: a, b and c are files of the root.            *)
EXTENDS FileTransaction, TLC

CONSTANTS a, b, c, c1, c2, c3, c4, c5


(* The comparison found that a was renamed to b and written anew, and that *)
(* c was deleted on the other side.                                        *)
HereChain  == (a :> c1) @@ (b :> None) @@ (c :> c3)
ThereChain == (a :> c2) @@ (b :> c1) @@ (c :> None)
Copied(p, w)   == [act |-> "copy", path |-> p, from |-> p, want |-> w, exact |-> TRUE]
Linked(p, w)   == [act |-> "link", path |-> p, from |-> p, want |-> w, exact |-> TRUE]
Deleted(p, w)  == [act |-> "delete", path |-> p, from |-> p, want |-> w, exact |-> TRUE]
Moved(p, q, w) == [act |-> "move", path |-> q, from |-> p, want |-> w, exact |-> TRUE]
Sampled(op)    == [op EXCEPT !.exact = FALSE]

PlanLinks  == <<Sampled(Moved(a, b, c1)), Sampled(Copied(a, c2)), Linked(c, c2)>>
PlanChain  == <<Moved(a, b, c1), Copied(a, c2), Deleted(c, c3)>>

PlanUpdate == <<Copied(a, c2)>>
PlanDelete == <<Deleted(c, c3)>>
=============================================================================
