---- MODULE MCRootLock ----
(* Instances of RootLock for TLC.                                          *)
EXTENDS RootLock, TLC

CONSTANTS p1, p2, p3

Two   == {p1, p2}
Three == {p1, p2, p3}
Symmetry == Permutations(Proc)
====
