---- MODULE MCSyncCycle ----
(* Instances of SyncCycle for TLC.                                         *)
EXTENDS SyncCycle

CONSTANTS a, b, e, l, n1, n2

Calm(mode, policy, names, runs, edits) ==
  [mode |-> mode, policy |-> policy, desktop |-> FALSE, names |-> names, contents |-> {a, b},
   writers |-> {}, trouble |-> {}, runs |-> runs, saves |-> edits, faults |-> 0]

(* Two-way runs between edits, and with people at the target and a fault.  *)
TwoWay == {[Calm("sync", policy, {n1, n2}, 3, 4) EXCEPT !.contents = {a, e}] :
             policy \in {"report", "newer"}}
Noisy  == {[Calm("sync", "report", {n1, n2}, 2, 3) EXCEPT !.contents = {a, e},
             !.writers = {"target"}, !.trouble = {"unreadable"}, !.faults = 1]}

(* Reviewed one-way runs over files and symlinks.                          *)
Reviewed ==
  {[Calm(mode, "report", {n1, n2}, 2, 3) EXCEPT !.contents = {a, b, l},
     !.desktop = TRUE, !.trouble = {"unread"}, !.faults = 1] : mode \in {"mirror", "enrich"}}

(* A mirror run from the command line, all rows of it.                     *)
Unattended == {[Calm("mirror", "report", {n1, n2}, 2, 3) EXCEPT !.contents = {a, l},
                  !.trouble = {"unread"}, !.faults = 1]}

(* Two-way runs that keep the loser of a conflict.                         *)
Keeping == {Calm("sync", "copy", {n1}, 3, 3)}

All == TwoWay \cup Noisy \cup Reviewed \cup Unattended \cup Keeping

SavedDuring == {[Calm("sync", "report", {n1}, 3, 3) EXCEPT !.writers = {"source"}]}
====
