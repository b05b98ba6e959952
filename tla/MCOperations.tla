---------------------------- MODULE MCOperations ----------------------------
(* Instances of Operations for TLC.                                                       *)
EXTENDS Operations

\* Two commands race for one launch and one run; one command at a time follows two
\* other launches, or another run.
Scenarios == {[tasks |-> 2, launches |-> 1, runs |-> 1],
              [tasks |-> 1, launches |-> 3, runs |-> 1],
              [tasks |-> 1, launches |-> 1, runs |-> 2]}
Alone == {[tasks |-> 1, launches |-> 1, runs |-> 2]}
=============================================================================
