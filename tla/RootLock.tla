------------------------------ MODULE RootLock ------------------------------
(***************************************************************************)
(* The exclusive lease of a sync root: `RootLock` of base/fs/lock.         *)
(*                                                                         *)
(* `.syncdash.lock` is an immutable anchor that names a ledger.  Each      *)
(* acquisition competes for one generation-specific claim file, published  *)
(* without replacing; a heartbeat file and a release file, both named for  *)
(* the owner, complete the generation.  Nothing is ever updated in place.  *)
(*                                                                         *)
(* A process runs `acquire_vfs` step by step, each step being one call to  *)
(* the backend, interleaved with the other processes.  A directory listing *)
(* is not atomic: it starts with what is there (ListLedger) and may or may *)
(* not report what appears or disappears before it ends.  A publication    *)
(* may fail before or AFTER it took effect.  A process may crash anywhere, *)
(* and a person may delete the files of the ledger, as `occupied_error`    *)
(* invites them to.                                                        *)
(***************************************************************************)
EXTENDS Naturals, FiniteSets

CONSTANTS
  Proc,          \* processes and threads that may lock this root
  Token,         \* ledger ids and owner tokens: 128-bit random numbers
  Absent,        \* no token: a file that does not exist, a field not filled in
  MaxGen,        \* the last generation: u64::MAX in the code
  MaxFaults,     \* bound: backend errors in a behaviour
  MaxCrashes,    \* bound: crashes in a behaviour
  MaxCleanups,   \* bound: manual deletions in a behaviour
  Hasty          \* TRUE: files may be deleted while owners are running

ASSUME ConstantsAssumption ==
  /\ Absent \notin Token
  /\ MaxGen \in Nat
  /\ MaxFaults \in Nat
  /\ MaxCrashes \in Nat
  /\ MaxCleanups \in Nat
  /\ Hasty \in BOOLEAN

VARIABLES
  anchor,     \* the ledger id in `.syncdash.lock`, Absent when there is no file
  claims,     \* the claim files; the name holds ledger and generation only
  beats,      \* the heartbeat files
  releases,   \* the release files
  pc,         \* where each process is in acquire_vfs, or that it holds a guard
  mine,       \* the ledger, generation and owner token of a process' candidate
  seen,       \* what the running listing of a process started with
  lost,       \* the lease_lost flag of the guard a process holds
  faults,     \* backend errors so far
  crashes,    \* processes that died inside acquire_vfs or with a guard
  cleanups    \* manual deletions so far

files == <<anchor, claims, beats, releases>>
vars  == <<files, pc, mine, seen, lost, faults, crashes, cleanups>>

TokenOrAbsent == Token \cup {Absent}
Lease   == [ledger : TokenOrAbsent, gen : 0..MaxGen, owner : TokenOrAbsent]
NoLease == [ledger |-> Absent, gen |-> 0, owner |-> Absent]

(* The files of a ledger directory, as one value.                          *)
Ledger    == [claims |-> claims, beats |-> beats, releases |-> releases]
NoListing == [claims |-> {}, beats |-> {}, releases |-> {}]
Artifacts(v) == v.claims \cup v.beats \cup v.releases

Locations == {"idle", "read_anchor", "list_orphans", "reread_anchor",
              "publish_anchor", "adopt_anchor", "list", "decide",
              "publish_claim", "list_again", "decide_again", "publish_beat",
              "confirm", "held", "release"}
(* Inside acquire_vfs before the heartbeat file: an error there returns at *)
(* once, with `?`, and releases nothing.                                   *)
Reading == {"read_anchor", "list_orphans", "reread_anchor", "adopt_anchor",
            "list", "decide", "list_again", "decide_again", "confirm"}

Init ==
  /\ anchor = Absent
  /\ claims = {} /\ beats = {} /\ releases = {}
  /\ pc = [p \in Proc |-> "idle"]
  /\ mine = [p \in Proc |-> NoLease]
  /\ seen = [p \in Proc |-> NoListing]
  /\ lost = [p \in Proc |-> FALSE]
  /\ faults = 0 /\ crashes = 0 /\ cleanups = 0

-----------------------------------------------------------------------------
(* Steps of a process.  Each names the locations it moves between.         *)

Goto(p, to) == pc' = [pc EXCEPT ![p] = to]

At(p, from, to) == pc[p] = from /\ Goto(p, to)

(* acquire_vfs returns without a guard, the guard is gone, or the process. *)
Leave(p) ==
  /\ Goto(p, "idle")
  /\ mine' = [mine EXCEPT ![p] = NoLease]
  /\ seen' = [seen EXCEPT ![p] = NoListing]

(* A random token is one that nothing carries; which one does not matter.  *)
Carries(a, t) == t = a.ledger \/ t = a.owner

Fresh(t) ==
  /\ t \in Token /\ t # anchor
  /\ \A a \in Artifacts(Ledger) : ~Carries(a, t)
  /\ \A p \in Proc : ~Carries(mine[p], t) /\ \A a \in Artifacts(seen[p]) : ~Carries(a, t)

Draws(t) == Fresh(t) /\ t = CHOOSE u \in Token : Fresh(u)

Fault == faults < MaxFaults /\ faults' = faults + 1

(* The three outcomes of a publication without replacing: it succeeds, it  *)
(* fails having done nothing, or the backend reports an error although the *)
(* file is there.  `taken` is that the name exists already.                *)
Published(taken)   == ~taken /\ UNCHANGED faults
FailedAfter(taken) == ~taken /\ Fault
Refused(taken)     == IF taken THEN UNCHANGED faults ELSE Fault

Start(p) ==
  /\ At(p, "idle", "read_anchor")
  /\ UNCHANGED <<files, mine, seen, lost, faults, crashes, cleanups>>

(* read_anchor at the start of ensure_anchor, before its publication       *)
(* (reread_anchor) and after a failed one (adopt_anchor).                  *)
UseAnchor(p) ==
  /\ pc[p] \in {"read_anchor", "reread_anchor", "adopt_anchor"}
  /\ anchor # Absent
  /\ Goto(p, "list")
  /\ mine' = [mine EXCEPT ![p] = [NoLease EXCEPT !.ledger = anchor]]
  /\ UNCHANGED <<files, seen, lost, faults, crashes, cleanups>>

AnchorMissing(p) ==
  /\ anchor = Absent
  /\ \/ At(p, "read_anchor", "list_orphans") /\ UNCHANGED <<mine, seen>>
     \/ pc[p] = "adopt_anchor" /\ Leave(p)
  /\ UNCHANGED <<files, lost, faults, crashes, cleanups>>

DrawLedgerId(p) ==
  /\ anchor = Absent
  /\ At(p, "reread_anchor", "publish_anchor")
  /\ \E t \in Token : Draws(t) /\ mine' = [mine EXCEPT ![p] = [NoLease EXCEPT !.ledger = t]]
  /\ UNCHANGED <<files, seen, lost, faults, crashes, cleanups>>

(* Seeded fault: no look for the files of an older ledger.                 *)
NoOrphansUnchecked(p) ==
  /\ At(p, "list_orphans", "reread_anchor")
  /\ UNCHANGED <<files, mine, seen, lost, faults, crashes, cleanups>>

(* Ledger files without an anchor: refuse to start a new ledger.           *)
RefuseOrphans(p) ==
  /\ pc[p] = "list_orphans"
  /\ Artifacts(Ledger) # {}
  /\ Leave(p)
  /\ UNCHANGED <<files, lost, faults, crashes, cleanups>>

NoOrphans(p) ==
  /\ At(p, "list_orphans", "reread_anchor")
  /\ Artifacts(Ledger) = {}
  /\ UNCHANGED <<files, mine, seen, lost, faults, crashes, cleanups>>

(* Seeded fault: the loser keeps its own ledger id.                        *)
PublishAnchorUnadopted(p) ==
  LET taken == anchor # Absent IN
  /\ At(p, "publish_anchor", "list")
  /\ UNCHANGED faults
  /\ anchor' = IF taken THEN anchor ELSE mine[p].ledger
  /\ UNCHANGED <<claims, beats, releases, mine, seen, lost, crashes, cleanups>>

PublishAnchor(p) ==
  LET taken == anchor # Absent IN
  /\ pc[p] = "publish_anchor"
  /\ \/ Published(taken)   /\ anchor' = mine[p].ledger /\ Goto(p, "list")
     \/ FailedAfter(taken) /\ anchor' = mine[p].ledger /\ Goto(p, "adopt_anchor")
     \/ Refused(taken)     /\ UNCHANGED anchor         /\ Goto(p, "adopt_anchor")
  /\ UNCHANGED <<claims, beats, releases, mine, seen, lost, crashes, cleanups>>

-----------------------------------------------------------------------------
(* inspect_ledger: list the root, read every listed record, then judge.    *)

ListLedger(p) ==
  /\ \/ At(p, "list", "decide")
     \/ At(p, "list_again", "decide_again")
  /\ seen' = [seen EXCEPT ![p] = Ledger]
  /\ UNCHANGED <<files, mine, lost, faults, crashes, cleanups>>

(* What a listing may report of a directory that held `start` and holds    *)
(* `now`: all that was there throughout and any part of what came since.   *)
(* A listed file that is gone when it is read makes the ledger unreadable. *)
Listings(start, now) == {(start \cap now) \cup new : new \in SUBSET (now \ start)}

Views(p) ==
  [claims   : Listings(seen[p].claims, claims),
   beats    : Listings(seen[p].beats, beats),
   releases : Listings(seen[p].releases, releases)]

Vanished(p) ==
  ~ /\ seen[p].claims \subseteq claims
    /\ seen[p].beats \subseteq beats
    /\ seen[p].releases \subseteq releases

(* The rules of inspect_ledger: every artifact belongs to ledger l, a      *)
(* heartbeat or a release matches its claim, generations are contiguous    *)
(* from 0 and all but the latest are released.                             *)
WellFormed(v, l) ==
  /\ \A a \in Artifacts(v) : a.ledger = l
  /\ v.beats \subseteq v.claims /\ v.releases \subseteq v.claims
  /\ \A c \in v.claims : \A g \in 0..c.gen : \E d \in v.claims : d.gen = g
  /\ \A c, d \in v.claims : c.gen < d.gen => c \in v.releases

IsLatest(c, v) == c \in v.claims /\ \A d \in v.claims : d.gen <= c.gen

Unreleased(c, v) == IsLatest(c, v) /\ c \notin v.releases

(* Seeded fault: a claim without a heartbeat file is taken for a dead one.  *)
FreeIfSilent(v, l, generation) ==
  /\ v.beats \cup v.releases \subseteq v.claims
  /\ \/ v.claims = {} /\ generation = 0
     \/ \E c \in v.claims : /\ IsLatest(c, v) /\ generation = c.gen + 1
                            /\ c \in v.releases \/ c \notin v.beats

(* The generation to claim after reading v, if the root is free.           *)
Free(v, l, generation) ==
  /\ WellFormed(v, l)
  /\ \/ v.claims = {} /\ generation = 0
     \/ \E c \in v.claims \cap v.releases : IsLatest(c, v) /\ generation = c.gen + 1

Decide(p) ==
  LET l == mine[p].ledger IN
  /\ At(p, "decide", "publish_claim")
  /\ \E generation \in {g \in 0..MaxGen : \E v \in Views(p) : Free(v, l, g)}, t \in Token :
       /\ Draws(t)
       /\ mine' = [mine EXCEPT ![p] = [ledger |-> l, gen |-> generation, owner |-> t]]
  /\ seen' = [seen EXCEPT ![p] = NoListing]
  /\ UNCHANGED <<files, lost, faults, crashes, cleanups>>

(* Occupied, malformed or out of generations: acquire_vfs returns an error.*)
DecideRefuse(p) ==
  /\ pc[p] = "decide"
  /\ \/ Vanished(p)
     \/ ~ \A v \in Views(p) : \E g \in 0..MaxGen : Free(v, mine[p].ledger, g)
  /\ Leave(p)
  /\ UNCHANGED <<files, lost, faults, crashes, cleanups>>

(* Seeded fault: the claim is published with a replacing commit.           *)
PublishClaimReplacing(p) ==
  /\ At(p, "publish_claim", "publish_beat")
  /\ claims' = {c \in claims : c.gen # mine[p].gen} \cup {mine[p]}
  /\ UNCHANGED <<anchor, beats, releases, mine, seen, lost, faults, crashes, cleanups>>

(* publish_record of the claim: the name is the generation, not the owner. *)
PublishClaim(p) ==
  LET taken == \E c \in claims : c.ledger = mine[p].ledger /\ c.gen = mine[p].gen IN
  /\ pc[p] = "publish_claim"
  /\ \/ Published(taken)   /\ claims' = claims \cup {mine[p]} /\ Goto(p, "publish_beat")
     \/ FailedAfter(taken) /\ claims' = claims \cup {mine[p]} /\ Goto(p, "list_again")
     \/ Refused(taken)     /\ UNCHANGED claims                /\ Goto(p, "list_again")
  /\ UNCHANGED <<anchor, beats, releases, mine, seen, lost, crashes, cleanups>>

(* After a failed publication the ledger decides who won: this very claim  *)
(* is ours to hold, a newer released generation means trying again, and    *)
(* everything else is an error.                                            *)
Verdict(p, v) ==
  IF WellFormed(v, mine[p].ledger) /\ Unreleased(mine[p], v) THEN "ours"
  ELSE IF /\ WellFormed(v, mine[p].ledger)
          /\ \E c \in v.claims \cap v.releases : IsLatest(c, v) /\ c.gen >= mine[p].gen
       THEN "retry"
       ELSE "refuse"

Verdicts(p) ==
  {Verdict(p, v) : v \in Views(p)} \cup (IF Vanished(p) THEN {"refuse"} ELSE {})

DecideAgain(p) ==
  /\ pc[p] = "decide_again"
  /\ \E verdict \in Verdicts(p) :
       IF verdict = "refuse"
       THEN Leave(p)
       ELSE /\ Goto(p, IF verdict = "ours" THEN "publish_beat" ELSE "list")
            /\ seen' = [seen EXCEPT ![p] = NoListing]
            /\ UNCHANGED mine
  /\ UNCHANGED <<files, lost, faults, crashes, cleanups>>

PublishBeat(p) ==
  LET taken == mine[p] \in beats IN
  /\ pc[p] = "publish_beat"
  /\ \/ Published(taken)   /\ beats' = beats \cup {mine[p]} /\ Goto(p, "confirm")
     \/ FailedAfter(taken) /\ beats' = beats \cup {mine[p]} /\ Goto(p, "release")
     \/ Refused(taken)     /\ UNCHANGED beats               /\ Goto(p, "release")
  /\ UNCHANGED <<anchor, claims, releases, mine, seen, lost, crashes, cleanups>>

(* lease_identity_is_current: this ledger and this claim are still there.  *)
IdentityCurrent(p) == anchor = mine[p].ledger /\ mine[p] \in claims

(* The last check of acquire_vfs; claim_is_current takes a failed read for *)
(* a claim that is gone.                                                   *)
Confirm(p) ==
  /\ \/ /\ IdentityCurrent(p) /\ At(p, "confirm", "held")
        /\ lost' = [lost EXCEPT ![p] = FALSE] /\ UNCHANGED faults
     \/ /\ At(p, "confirm", "release")
        /\ IF IdentityCurrent(p) THEN Fault ELSE UNCHANGED faults
        /\ UNCHANGED lost
  /\ UNCHANGED <<files, mine, seen, crashes, cleanups>>

(* The heartbeat thread, or verify_lease_identity before a mutation, finds *)
(* the identity gone or cannot read it.                                    *)
NoticeLoss(p) ==
  /\ pc[p] = "held" /\ ~lost[p]
  /\ IF IdentityCurrent(p) THEN Fault ELSE UNCHANGED faults
  /\ lost' = [lost EXCEPT ![p] = TRUE]
  /\ UNCHANGED <<files, pc, mine, seen, crashes, cleanups>>

DropGuard(p) ==
  /\ At(p, "held", "release")
  /\ UNCHANGED <<files, mine, seen, lost, faults, crashes, cleanups>>

(* release_claim; its error is only logged.                                *)
Release(p) ==
  LET taken == mine[p] \in releases IN
  /\ pc[p] = "release"
  /\ Leave(p)
  /\ \/ Published(taken)   /\ releases' = releases \cup {mine[p]}
     \/ FailedAfter(taken) /\ releases' = releases \cup {mine[p]}
     \/ Refused(taken)     /\ UNCHANGED releases
  /\ UNCHANGED <<anchor, claims, beats, lost, crashes, cleanups>>

(* A read or a listing fails, and acquire_vfs returns the error.           *)
ReadFails(p) ==
  /\ pc[p] \in Reading
  /\ Fault
  /\ Leave(p)
  /\ UNCHANGED <<files, lost, crashes, cleanups>>

-----------------------------------------------------------------------------
(* The environment.                                                        *)

Crash(p) ==
  /\ pc[p] # "idle"
  /\ crashes < MaxCrashes
  /\ crashes' = crashes + 1
  /\ Leave(p)
  /\ UNCHANGED <<files, lost, faults, cleanups>>

MayDelete ==
  /\ cleanups < MaxCleanups
  /\ Hasty \/ \A p \in Proc : pc[p] = "idle"
  /\ cleanups' = cleanups + 1

(* What occupied_error asks for: remove every `.syncdash.lock*` file.      *)
RemoveLedger ==
  /\ MayDelete
  /\ anchor' = Absent /\ claims' = {} /\ beats' = {} /\ releases' = {}
  /\ UNCHANGED <<pc, mine, seen, lost, faults, crashes>>

(* Only the anchor goes: the case ensure_anchor refuses to repair.         *)
LoseAnchor ==
  /\ MayDelete
  /\ anchor # Absent
  /\ anchor' = Absent
  /\ UNCHANGED <<claims, beats, releases, pc, mine, seen, lost, faults, crashes>>

-----------------------------------------------------------------------------
Step(p) ==
  \/ UseAnchor(p) \/ AnchorMissing(p) \/ DrawLedgerId(p)
  \/ RefuseOrphans(p) \/ NoOrphans(p) \/ PublishAnchor(p)
  \/ ListLedger(p) \/ Decide(p) \/ DecideRefuse(p)
  \/ PublishClaim(p) \/ DecideAgain(p) \/ PublishBeat(p)
  \/ Confirm(p) \/ Release(p)

Next ==
  \/ \E p \in Proc : \/ Start(p) \/ Step(p) \/ NoticeLoss(p) \/ DropGuard(p)
                     \/ ReadFails(p) \/ Crash(p)
  \/ RemoveLedger
  \/ LoseAnchor

Spec == Init /\ [][Next]_vars

(* A started acquisition runs on, and the heartbeat thread keeps polling;  *)
(* nobody has to start an acquisition or to drop a guard.                  *)
Fairness == \A p \in Proc : WF_vars(Step(p)) /\ WF_vars(NoticeLoss(p))

FairSpec == Spec /\ Fairness

-----------------------------------------------------------------------------
TypeOK ==
  /\ anchor \in TokenOrAbsent
  /\ claims \subseteq Lease /\ beats \subseteq Lease /\ releases \subseteq Lease
  /\ pc \in [Proc -> Locations]
  /\ mine \in [Proc -> Lease]
  /\ seen \in [Proc -> [claims : SUBSET Lease, beats : SUBSET Lease,
                        releases : SUBSET Lease]]
  /\ lost \in [Proc -> BOOLEAN]
  /\ faults \in Nat /\ crashes \in Nat /\ cleanups \in Nat

(* A guard whose next identity check would succeed.                        *)
Owns(p) == pc[p] = "held" /\ IdentityCurrent(p)

(* Two guards are never both in possession of the root, whatever crashes,  *)
(* which publications lie about their outcome, and even while somebody     *)
(* deletes the ledger under its owners: what apply's check before each     *)
(* mutation relies on.                                                     *)
OneOwner == \A p, q \in Proc : Owns(p) /\ Owns(q) => p = q

(* As long as files are only deleted when everybody has stopped, two       *)
(* guards never exist at all.                                              *)
MutualExclusion ==
  ~Hasty => \A p, q \in Proc : pc[p] = "held" /\ pc[q] = "held" => p = q

(* In the ledger of the anchor a generation is only ever claimed after its *)
(* predecessor was released: no claim is taken over as stale, be its owner *)
(* crashed or slow.                                                        *)
NoTakeover ==
  \A c \in claims : c.ledger = anchor /\ c.gen > 0 =>
    \E r \in releases : r.ledger = c.ledger /\ r.gen = c.gen - 1

(* Without deletions under running owners the protocol never writes a      *)
(* ledger it would itself refuse to read, so a root cannot be locked out   *)
(* by anything but an unreleased claim.                                    *)
LedgerStaysReadable ==
  ~Hasty /\ anchor # Absent => WellFormed(Ledger, anchor)

(* An acquisition that returns an error after its claim was published does *)
(* not leave the claim behind, which would lock the root until somebody    *)
(* deletes the ledger (tests.rs:65 and mod.rs:74-77 say so of one case).   *)
ErrorLeavesNoClaim ==
  [][\A p \in Proc :
       ReadFails(p) => mine[p] \notin claims \/ mine[p] \in releases]_vars

(* A process told that the anchor is missing, and to delete every lock     *)
(* file, is told the truth (record_store.rs:79-81).                        *)
MissingAnchorIsMissing ==
  [][\A p \in Proc : RefuseOrphans(p) => anchor = Absent]_vars

(* While nothing fails and nobody deletes the ledger, a contest for a root *)
(* nobody has claimed has a winner: not everybody can be turned away.      *)
ContestHasWinner ==
  (claims = {} /\ \E p \in Proc : pc[p] # "idle") ~>
    ((\E p \in Proc : pc[p] = "held") \/ faults > 0 \/ cleanups > 0)

=============================================================================
