------------------------------- MODULE Trash -------------------------------
(***************************************************************************)
(* The central trash (services/store/trash.rs): applies add a directory of *)
(* displaced files, named by its time; a person prunes it by age, spacing  *)
(* and size, and restores files from it, while people save into the root   *)
(* the files go back to. Nothing locks the trash: applies, one prune and   *)
(* one restore run at the same time.                                       *)
(*                                                                         *)
(* Every file counts one byte; the directories of a run, the search text   *)
(* and the dry runs are left out.                                          *)
(***************************************************************************)
EXTENDS Integers, Sequences, FiniteSets, FiniteSetsExt

CONSTANTS
  Rel,       \* the paths files were displaced from
  Item,      \* what a path can hold
  Dangling,  \* items that are symlinks to nothing: Path::exists says no
  Vacant,    \* nothing there
  Second,    \* ticks of the clock in a second
  Intervals, \* <<step, end>> in seconds, the ends increasing
  KeepFor, MaxBytes,  \* Retention, in ticks and files; 0 switches one off
  MaxClock   \* bound: the last tick

ASSUME TrashAssumption ==
  /\ Rel # {} /\ Dangling \subseteq Item /\ Vacant \notin Item
  /\ Second \in Nat \ {0}
  /\ Intervals \in Seq(Nat \X Nat) /\ Intervals # << >>
  /\ KeepFor \in Nat /\ MaxBytes \in Nat /\ MaxClock \in Nat

VARIABLES
  clock,    \* now, in ticks
  bin,      \* files of each run directory, by the tick that names it
  doomed,   \* the directories the prune has still to remove
  dest,     \* the root a restore writes to
  hits,     \* <<path, run>> the restore has still to look at
  inHand    \* the path and content it has staged

trashVars == <<clock, bin, doomed, dest, hits, inHand>>

Runs == DOMAIN bin
Empty == [p \in Rel |-> Vacant]
NoHit == [path |-> CHOOSE p \in Rel : TRUE, item |-> Vacant]

TrashInit ==
  /\ clock = 0
  /\ bin = << >>
  /\ doomed = {}
  /\ dest = Empty
  /\ hits = {}
  /\ inHand = NoHit

Tick ==
  /\ clock < MaxClock
  /\ clock' = clock + 1
  /\ UNCHANGED <<bin, doomed, dest, hits, inHand>>

\* An apply displaces files into a run directory of its own; find passes over symlinks.
Displace(files) ==
  /\ clock \notin Runs
  /\ bin' = [r \in Runs \cup {clock} |-> IF r = clock THEN files ELSE bin[r]]
  /\ UNCHANGED <<clock, doomed, dest, hits, inHand>>

-----------------------------------------------------------------------------
(* Prune                                                                   *)

Oldest == [i \in 1 .. Cardinality(Runs) |-> CHOOSE r \in Runs : Cardinality({q \in Runs : q <= r}) = i]
InSeconds(t) == t \div Second
MaxSpan == Intervals[Len(Intervals)][2]

StepAt(age) ==
  LET fit == {i \in DOMAIN Intervals : age < Intervals[i][2]}
  IN  IF fit = {} THEN MaxSpan ELSE Intervals[Min(fit)][1]

\* The copy kept last, as an age, and the seconds to remove.
Weigh(acc, t) ==
  LET age == InSeconds(clock) - t
  IN  CASE age > MaxSpan -> [acc EXCEPT !.gone = @ \cup {t}]
        [] acc.first /\ age <= MaxSpan -> [acc EXCEPT !.first = FALSE, !.kept = age]
        [] OTHER -> IF acc.kept - age < StepAt(age) THEN [acc EXCEPT !.gone = @ \cup {t}]
                                                    ELSE [acc EXCEPT !.kept = age]

\* staggered_removals: the seconds, oldest first.
Staggered ==
  LET runs == Oldest
      scan[i \in 0 .. Len(runs)] ==
        IF i = 0 THEN [first |-> TRUE, kept |-> 0, gone |-> {}]
        ELSE Weigh(scan[i - 1], InSeconds(runs[i]))
  IN  scan[Len(runs)].gone

\* Of the runs of one second the first is found.
Crowded ==
  LET seconds == Staggered
  IN  {r \in Runs : InSeconds(r) \in seconds /\ \A q \in Runs : InSeconds(q) = InSeconds(r) => r <= q}

Expired == IF KeepFor = 0 THEN {} ELSE {r \in Runs : r < clock - KeepFor}

\* The oldest go until what is left fits.
Evicted(out) ==
  LET Left(gone) == Cardinality({f \in (Runs \ gone) \X Rel : bin[f[1]][f[2]] # Vacant})
      over == {r \in Runs : Left(out \cup {q \in Runs : q < r}) > MaxBytes}
  IN  IF MaxBytes = 0 THEN out ELSE out \cup over

\* The newest run always stays.
Doomed ==
  IF Runs = {} THEN {} ELSE LET out == Expired \cup Crowded IN Evicted(out) \ {Max(Runs)}

BeginPrune ==
  /\ doomed = {}
  /\ doomed' = Doomed
  /\ UNCHANGED <<clock, bin, dest, hits, inHand>>

\* remove_dir_all: everything, or what it came to before it failed.
RemoveRun(r) ==
  /\ r \in doomed /\ r \in Runs
  /\ \A q \in doomed : r <= q
  /\ \/ bin' = [q \in Runs \ {r} |-> bin[q]]
     \/ \E left \in SUBSET Rel :
          bin' = [bin EXCEPT ![r] = [p \in Rel |-> IF p \in left THEN bin[r][p] ELSE Vacant]]
  /\ doomed' = doomed \ {r}
  /\ UNCHANGED <<clock, dest, hits, inHand>>

-----------------------------------------------------------------------------
(* Restore                                                                 *)

\* The newest run with the path, of all or of the one that was named.
Hits(paths, among) ==
  {<<p, Max({r \in among : bin[r][p] # Vacant})>> :
     p \in {q \in paths : \E r \in among : bin[r][q] # Vacant}}

BeginTrashRestore(paths, among) ==
  /\ hits = {} /\ inHand = NoHit
  /\ hits' = Hits(paths, among)
  /\ UNCHANGED <<clock, bin, doomed, dest, inHand>>

Exists(p) == dest[p] # Vacant /\ dest[p] \notin Dangling

SkipExisting(p, r) ==
  /\ <<p, r>> \in hits /\ inHand = NoHit
  /\ ~(~Exists(p) /\ r \in Runs /\ bin[r][p] # Vacant)
  /\ hits' = hits \ {<<p, r>>}
  /\ UNCHANGED <<clock, bin, doomed, dest, inHand>>

\* The stored file is copied to a staged file beside the destination.
StageHit(p, r) ==
  /\ <<p, r>> \in hits /\ inHand = NoHit
  /\ ~Exists(p)
  /\ r \in Runs /\ bin[r][p] # Vacant
  /\ inHand' = [path |-> p, item |-> bin[r][p]]
  /\ hits' = hits \ {<<p, r>>}
  /\ UNCHANGED <<clock, bin, doomed, dest>>

\* Staged::commit replaces what is there.
CommitHit ==
  /\ inHand # NoHit
  /\ dest' = [dest EXCEPT ![inHand.path] = inHand.item]
  /\ inHand' = NoHit
  /\ UNCHANGED <<clock, bin, doomed, hits>>

HitFails ==
  /\ inHand # NoHit
  /\ inHand' = NoHit
  /\ UNCHANGED <<clock, bin, doomed, dest, hits>>

SaveAtDest(p, i) ==
  /\ dest[p] # i
  /\ dest' = [dest EXCEPT ![p] = i]
  /\ UNCHANGED <<clock, bin, doomed, hits, inHand>>

TrashNext ==
  \/ Tick
  \/ \E files \in [Rel -> (Item \ Dangling) \cup {Vacant}] : files # Empty /\ Displace(files)
  \/ BeginPrune \/ \E r \in Runs : RemoveRun(r)
  \/ \E paths \in SUBSET Rel, among \in {Runs} \cup {{r} : r \in Runs} :
       BeginTrashRestore(paths, among)
  \/ \E p \in Rel, r \in 0 .. MaxClock : SkipExisting(p, r) \/ StageHit(p, r)
  \/ CommitHit \/ HitFails
  \/ \E p \in Rel, i \in Item \cup {Vacant} : SaveAtDest(p, i)

TrashSpec == TrashInit /\ [][TrashNext]_trashVars

-----------------------------------------------------------------------------
(* Properties                                                              *)

\* Every variable has its type.
TrashTypeOK ==
  /\ clock \in 0 .. MaxClock
  /\ Runs \subseteq 0 .. clock
  /\ \A r \in Runs : bin[r] \in [Rel -> Item \cup {Vacant}]
  /\ doomed \subseteq 0 .. clock
  /\ dest \in [Rel -> Item \cup {Vacant}]
  /\ hits \subseteq Rel \X (0 .. clock)
  /\ inHand \in [path : Rel, item : Item \cup {Vacant}]

\* "An existing destination is **never overwritten**" (trash.rs:112): what a restore puts
\* back comes to a free place. The look follows symlinks and is made before the copy; the
\* publication replaces.
RestoreNeverOverwrites ==
  [][inHand # NoHit /\ inHand' = NoHit /\ dest' # dest => dest[inHand.path] = Vacant]_trashVars

\* "Adjacent versions must be at least step seconds apart" (trash.rs:197): of two runs a
\* prune leaves, but for the newest, which always stays, the younger is at least its step
\* away from the older.
ThinnedAreSpaced ==
  [][doomed = {} /\ doomed' # {} =>
       \A a, b \in Runs \ doomed' :
         a < b /\ b # Max(Runs) =>
           InSeconds(b) - InSeconds(a) >= StepAt(InSeconds(clock) - InSeconds(b))]_trashVars
=============================================================================
