------------------------------ MODULE MCShared ------------------------------
(* Instances of what many hands work on at once, for TLC: the lock of a root, and the     *)
(* operations of the desktop. One of them moves, the other stands still.                  *)
EXTENDS MCRootLock, MCOperations

VARIABLE part

SharedInit ==
  /\ Init /\ OpInit /\ part \in {"lock", "desk"}
  /\ part = "desk" \/ bound = CHOOSE b \in Bounds : TRUE

SharedNext ==
  /\ UNCHANGED part
  /\ \/ part = "lock" /\ Next /\ UNCHANGED opVars
     \/ part = "desk" /\ OpNext /\ UNCHANGED vars

SharedSpec == SharedInit /\ [][SharedNext]_<<vars, opVars, part>>
=============================================================================
