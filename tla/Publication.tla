----------------------------- MODULE Publication -----------------------------
(***************************************************************************)
(* What a staged write promises (fs/vfs: WriteStaged), whichever backend   *)
(* carries it out: the destination shows a complete file or none, a        *)
(* no-replace commit never takes away what another put there, and a writer *)
(* that is told of success was visible, complete, under the final name.    *)
(***************************************************************************)
CONSTANTS
  Writer,       \* the staged writes for one name
  Nothing, Cut, Outsider

VARIABLES
  replacing,    \* the writers that commit over an existing file
  gapless,      \* TRUE where a commit replaces in one operation
  unchecked,    \* TRUE where the content is measured only under the final name
  shown,    \* what readers find under the name
  landed,   \* the writers whose content has been there
  told      \* what each writer was told

Verdicts == {"pending", "ok", "failed"}

backend == <<replacing, gapless, unchecked>>

Start ==
  /\ replacing \subseteq Writer /\ gapless \in BOOLEAN /\ unchecked \in BOOLEAN
  /\ shown \in {Nothing, Outsider} /\ landed = {}
  /\ told = [w \in Writer |-> "pending"]

\* The complete content of w appears; before that, where the backend cannot replace, the
\* old file has gone.
Land(w) ==
  /\ told[w] = "pending"
  /\ shown = Nothing \/ w \in replacing
  /\ shown' = w /\ landed' = landed \cup {w} /\ UNCHANGED told

Clear(w) ==
  /\ told[w] = "pending" /\ w \in replacing /\ ~gapless
  /\ shown' = Nothing /\ UNCHANGED <<landed, told>>

\* A cut upload is seen under the final name and never reported as a success.
Spoil(w) ==
  /\ told[w] = "pending" /\ w \in replacing /\ unchecked
  /\ shown' = Cut /\ UNCHANGED <<landed, told>>

Answer(w) ==
  /\ told[w] = "pending"
  /\ \/ w \in landed /\ told' = [told EXCEPT ![w] = "ok"]
     \/ told' = [told EXCEPT ![w] = "failed"]
  /\ UNCHANGED <<shown, landed>>

Others == shown' \in {Nothing, Outsider} /\ UNCHANGED <<landed, told>>

Step ==
  /\ Others \/ \E w \in Writer : Land(w) \/ Clear(w) \/ Spoil(w) \/ Answer(w)
  /\ UNCHANGED backend

Spec == Start /\ [][Step]_<<backend, shown, landed, told>>
=============================================================================
