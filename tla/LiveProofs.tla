----------------------------- MODULE LiveProofs -----------------------------
(***************************************************************************)
(* What the protocols between live processes and threads promise.          *)
(*                                                                         *)
(* The root lock: at most one guard owns the root, no claim is taken over, *)
(* and, when nobody deletes the ledger under its owners, the guards        *)
(* exclude one another and the ledger on disk stays readable; for any set  *)
(* of processes and tokens, any generation limit and any number of errors, *)
(* crashes and deletions.                                                  *)
(*                                                                         *)
(* The pause gate, for any number of workers: the reports balance because  *)
(* raising and lowering the flag alternate, so that at every moment the    *)
(* reports emitted or about to be emitted differ by the flag               *)
(* (Alternation). A flag that is up has somebody at the gate who will look *)
(* at it, unless the run was cancelled (FlagIsWatched). A worker held in a *)
(* pause has only the way into the waiting loop before it (HeldIsInside).  *)
(*                                                                         *)
(* The watcher, for any number of roots, changes and mishaps: no cursor in *)
(* the pipe is ahead of its root (PipeIs, MovedByIs), so that a compare    *)
(* that begins after its ticket was taken reads all that the ticket's      *)
(* cursor stands for (TicketIsInHand), and only such a cursor is saved.    *)
(* The latest change of a root that no compare has verified is always in   *)
(* one of five places (OnItsWay), and what fails goes back into the        *)
(* trigger (TriggerRequeues).                                              *)
(***************************************************************************)
EXTENDS RootLock, PauseGate, Watch, FiniteSetTheorems, TLAPS

(* The root lock.                                                          *)

(* From its draw of an owner token to its release a process is a claimant. *)
Claimant(p) ==
  pc[p] \in {"publish_claim", "list_again", "decide_again", "publish_beat",
             "confirm", "held", "release"}

(* From its reading of the anchor on it knows its ledger.                  *)
Engaged(p) == pc[p] \in {"list", "decide"} \/ Claimant(p)

ClaimantIsNamed ==
  \A p \in Proc : /\ Engaged(p) => mine[p].ledger \in Token
                  /\ Claimant(p) => mine[p].owner \in Token

OwnersDiffer ==
  \A p, q \in Proc : p # q /\ mine[p].owner \in Token => mine[p].owner # mine[q].owner

(* The owner of a claim that nobody but itself can release.                *)
NotReleased == \A p \in Proc : Claimant(p) => mine[p] \notin releases

(* An anchor that is not published yet names a ledger nobody uses.         *)
NewLedgerUnused ==
  \A p \in Proc : pc[p] = "publish_anchor" =>
    /\ mine[p].ledger \in Token /\ mine[p].ledger # anchor
    /\ \A q \in Proc : q # p => mine[q].ledger # mine[p].ledger
    /\ \A c \in claims : c.ledger # mine[p].ledger

ClaimsAreNamed == \A c \in claims : c.ledger \in Token

OneClaimPerName ==
  \A c, d \in claims : c.ledger = d.ledger /\ c.gen = d.gen => c = d

(* In the current ledger all generations below g are claimed and released. *)
SettledBelow(g) ==
  /\ \A h \in 0..MaxGen : h < g => \E d \in claims : d.ledger = anchor /\ d.gen = h
  /\ \A d \in claims : d.ledger = anchor /\ d.gen < g => d \in releases

ClaimsSettled == \A c \in claims : c.ledger = anchor => SettledBelow(c.gen)

CandidateSettled ==
  \A p \in Proc : pc[p] = "publish_claim" /\ mine[p].ledger = anchor =>
    SettledBelow(mine[p].gen)

Safe ==
  /\ ClaimantIsNamed
  /\ OwnersDiffer
  /\ NotReleased
  /\ NewLedgerUnused
  /\ ClaimsAreNamed
  /\ OneClaimPerName
  /\ ClaimsSettled
  /\ CandidateSettled

(* TypeOK and Safe together are inductive.  NoTakeover alone is not: it    *)
(* says nothing of the claim about to be published (CandidateSettled), of  *)
(* an anchor that would make old claims current (NewLedgerUnused), nor why *)
(* nobody but p releases the claim of p (OwnersDiffer, NotReleased).       *)
IInv == TypeOK /\ Safe

-----------------------------------------------------------------------------
ProcessTypes ==
  /\ pc \in [Proc -> Locations]
  /\ mine \in [Proc -> Lease]
  /\ seen \in [Proc -> [claims : SUBSET Lease, beats : SUBSET Lease,
                        releases : SUBSET Lease]]

LEMMA LeaveTypes ==
  ASSUME TypeOK, NEW p \in Proc, Leave(p) PROVE ProcessTypes'
<1>1. NoLease \in Lease
  BY ConstantsAssumption DEF NoLease, Lease, TokenOrAbsent
<1>2. NoListing \in [claims : SUBSET Lease, beats : SUBSET Lease, releases : SUBSET Lease]
  BY DEF NoListing
<1>3. "idle" \in Locations
  BY DEF Locations
<1> HIDE DEF NoLease, NoListing, Lease, Locations
<1>4. pc' \in [Proc -> Locations]
  BY <1>3 DEF Leave, Goto, TypeOK
<1>5. mine' \in [Proc -> Lease]
  BY <1>1 DEF Leave, TypeOK
<1>6. seen' \in [Proc -> [claims : SUBSET Lease, beats : SUBSET Lease,
                        releases : SUBSET Lease]]
  BY <1>2 DEF Leave, TypeOK
<1> QED
  BY <1>4, <1>5, <1>6 DEF ProcessTypes

(* Every variable keeps its type; in particular no generation exceeds      *)
(* MaxGen, the checked_add of acquire_vfs.                                 *)
LEMMA TypeStep == ASSUME TypeOK, [Next]_vars PROVE TypeOK'
<1> USE ConstantsAssumption DEF TypeOK, TokenOrAbsent, Lease, Locations
<1>1. ASSUME NEW p \in Proc, Start(p) PROVE TypeOK'
  BY <1>1 DEF Start, At, Goto, files
<1>2. ASSUME NEW p \in Proc, UseAnchor(p) PROVE TypeOK'
  BY <1>2 DEF UseAnchor, Goto, files, NoLease
<1>3. ASSUME NEW p \in Proc, AnchorMissing(p) PROVE TypeOK'
  <2>1. CASE At(p, "read_anchor", "list_orphans") /\ UNCHANGED <<mine, seen>>
    BY <1>3, <2>1 DEF AnchorMissing, At, Goto, files
  <2>2. CASE pc[p] = "adopt_anchor" /\ Leave(p)
    <3>1. ProcessTypes'
      BY <2>2, LeaveTypes
    <3> QED
      BY <1>3, <3>1 DEF ProcessTypes, AnchorMissing, files
  <2> QED
    BY <1>3, <2>1, <2>2 DEF AnchorMissing
<1>4. ASSUME NEW p \in Proc, DrawLedgerId(p) PROVE TypeOK'
  BY <1>4 DEF DrawLedgerId, At, Goto, files, NoLease
<1>5. ASSUME NEW p \in Proc, RefuseOrphans(p) PROVE TypeOK'
  <2>1. ProcessTypes'
    BY <1>5, LeaveTypes DEF RefuseOrphans
  <2> QED
    BY <1>5, <2>1 DEF ProcessTypes, RefuseOrphans, files
<1>6. ASSUME NEW p \in Proc, NoOrphans(p) PROVE TypeOK'
  BY <1>6 DEF NoOrphans, At, Goto, files
<1>7. ASSUME NEW p \in Proc, PublishAnchor(p) PROVE TypeOK'
  BY <1>7 DEF PublishAnchor, Published, FailedAfter, Refused, Fault, Goto
<1>8. ASSUME NEW p \in Proc, ListLedger(p) PROVE TypeOK'
  BY <1>8 DEF ListLedger, At, Goto, files, Ledger
<1>9. ASSUME NEW p \in Proc, Decide(p) PROVE TypeOK'
  BY <1>9 DEF Decide, At, Goto, files, NoListing
<1>10. ASSUME NEW p \in Proc, DecideRefuse(p) PROVE TypeOK'
  <2>1. ProcessTypes'
    BY <1>10, LeaveTypes DEF DecideRefuse
  <2> QED
    BY <1>10, <2>1 DEF ProcessTypes, DecideRefuse, files
<1>11. ASSUME NEW p \in Proc, PublishClaim(p) PROVE TypeOK'
  BY <1>11 DEF PublishClaim, Published, FailedAfter, Refused, Fault, Goto
<1>12. ASSUME NEW p \in Proc, DecideAgain(p) PROVE TypeOK'
  <2>1. CASE Leave(p)
    <3>1. ProcessTypes'
      BY <2>1, LeaveTypes
    <3> QED
      BY <1>12, <3>1 DEF ProcessTypes, DecideAgain, files
  <2>2. CASE ~Leave(p)
    <3>1. /\ Goto(p, "publish_beat") \/ Goto(p, "list")
          /\ seen' = [seen EXCEPT ![p] = NoListing]
          /\ UNCHANGED <<mine, files, lost, faults, crashes, cleanups>>
      BY <1>12, <2>2 DEF DecideAgain
    <3> QED
      BY <3>1 DEF Goto, files, NoListing
  <2> QED
    BY <2>1, <2>2
<1>13. ASSUME NEW p \in Proc, PublishBeat(p) PROVE TypeOK'
  <2>1. /\ beats' = beats \cup {mine[p]} \/ beats' = beats
        /\ Goto(p, "confirm") \/ Goto(p, "release")
        /\ faults' = faults \/ faults' = faults + 1
        /\ UNCHANGED <<anchor, claims, releases, mine, seen, lost, crashes, cleanups>>
    BY <1>13 DEF PublishBeat, Published, FailedAfter, Refused, Fault
  <2> QED
    BY <2>1 DEF Goto
<1>14. ASSUME NEW p \in Proc, Confirm(p) PROVE TypeOK'
  <2>1. /\ Goto(p, "held") \/ Goto(p, "release")
        /\ lost' = lost \/ lost' = [lost EXCEPT ![p] = FALSE]
        /\ faults' = faults \/ faults' = faults + 1
        /\ UNCHANGED <<files, mine, seen, crashes, cleanups>>
    BY <1>14 DEF Confirm, At, Fault
  <2>2. pc' \in [Proc -> Locations] /\ lost' \in [Proc -> BOOLEAN]
    BY <2>1 DEF Goto
  <2>3. faults' \in Nat
    BY <2>1
  <2> QED
    BY <2>1, <2>2, <2>3 DEF files
<1>15. ASSUME NEW p \in Proc, Release(p) PROVE TypeOK'
  <2>1. ProcessTypes'
    BY <1>15, LeaveTypes DEF Release
  <2> QED
    BY <1>15, <2>1 DEF ProcessTypes, Release, files, Published, FailedAfter, Refused, Fault
<1>16. ASSUME NEW p \in Proc, NoticeLoss(p) PROVE TypeOK'
  BY <1>16 DEF NoticeLoss, Fault, files
<1>17. ASSUME NEW p \in Proc, DropGuard(p) PROVE TypeOK'
  BY <1>17 DEF DropGuard, At, Goto, files
<1>18. ASSUME NEW p \in Proc, ReadFails(p) PROVE TypeOK'
  <2>1. ProcessTypes'
    BY <1>18, LeaveTypes DEF ReadFails
  <2> QED
    BY <1>18, <2>1 DEF ProcessTypes, ReadFails, files, Fault
<1>19. ASSUME NEW p \in Proc, Crash(p) PROVE TypeOK'
  <2>1. ProcessTypes'
    BY <1>19, LeaveTypes DEF Crash
  <2> QED
    BY <1>19, <2>1 DEF ProcessTypes, Crash, files
<1>20. CASE RemoveLedger
  BY <1>20 DEF RemoveLedger, MayDelete
<1>21. CASE LoseAnchor
  BY <1>21 DEF LoseAnchor, MayDelete
<1>22. CASE UNCHANGED vars
  BY <1>22 DEF vars, files
<1> QED
  BY <1>1, <1>2, <1>3, <1>4, <1>5, <1>6, <1>7, <1>8, <1>9, <1>10, <1>11, <1>12, <1>13,
     <1>14, <1>15, <1>16, <1>17, <1>18, <1>19, <1>20, <1>21, <1>22 DEF Next, Step

THEOREM TypeCorrect == Spec => []TypeOK
<1>1. Init => TypeOK
  BY ConstantsAssumption
  DEF Init, TypeOK, TokenOrAbsent, Lease, NoLease, NoListing, Locations
<1> QED
  BY <1>1, TypeStep, PTL DEF Spec
-----------------------------------------------------------------------------
(* A step of p that touches neither the anchor nor the claims, brings p to *)
(* none of the locations the invariant speaks of, and at most adds the     *)
(* release of p, which then leaves.                                        *)
Retreat(p) ==
  /\ anchor' = anchor /\ claims' = claims
  /\ \/ releases' = releases
     \/ Claimant(p) /\ releases' = releases \cup {mine[p]} /\ pc'[p] = "idle"
  /\ \A q \in Proc : q # p => pc'[q] = pc[q] /\ mine'[q] = mine[q]
  /\ \/ /\ mine'[p] = mine[p]
        /\ (Claimant(p)' => Claimant(p)) /\ (Engaged(p)' => Engaged(p))
        /\ pc'[p] \in {"publish_anchor", "publish_claim"} => pc'[p] = pc[p]
     \/ mine'[p] = NoLease /\ pc'[p] = "idle"

LEMMA SettledKept ==
  ASSUME anchor' = anchor, claims' = claims, releases \subseteq releases'
  PROVE  \A g \in 0..MaxGen : SettledBelow(g) => SettledBelow(g)'
BY DEF SettledBelow

LEMMA RetreatStep == ASSUME IInv, NEW p \in Proc, Retreat(p) PROVE Safe'
<1> USE DEF IInv, Safe
<1>0. releases \subseteq releases' /\ NoLease.owner \notin Token
      /\ \A q \in Proc : mine[q].gen \in 0..MaxGen
      /\ \A c \in claims : c.gen \in 0..MaxGen
  BY ConstantsAssumption DEF Retreat, NoLease, TypeOK, Lease
<1>1. ClaimantIsNamed'
  BY DEF Retreat, ClaimantIsNamed, Claimant, Engaged
<1>2. OwnersDiffer'
  BY <1>0 DEF Retreat, OwnersDiffer
<1>3. NotReleased'
  <2> SUFFICES ASSUME NEW q \in Proc, Claimant(q)' PROVE mine'[q] \notin releases'
    BY DEF NotReleased
  <2>1. Claimant(q) /\ mine'[q] = mine[q]
    BY DEF Retreat, Claimant
  <2>2. CASE releases' = releases
    BY <2>1, <2>2 DEF NotReleased
  <2>3. CASE Claimant(p) /\ releases' = releases \cup {mine[p]} /\ pc'[p] = "idle"
    <3>1. q # p
      BY <2>3 DEF Claimant
    <3>2. mine[q].owner # mine[p].owner
      BY <2>1, <3>1 DEF OwnersDiffer, ClaimantIsNamed
    <3> QED
      BY <2>1, <2>3, <3>2 DEF NotReleased
  <2> QED
    BY <2>2, <2>3 DEF Retreat
<1>4. NewLedgerUnused'
  <2> SUFFICES ASSUME NEW q \in Proc, pc'[q] = "publish_anchor"
               PROVE  /\ mine'[q].ledger \in Token /\ mine'[q].ledger # anchor'
                      /\ \A r \in Proc : r # q => mine'[r].ledger # mine'[q].ledger
                      /\ \A c \in claims' : c.ledger # mine'[q].ledger
    BY DEF NewLedgerUnused
  <2>1. pc[q] = "publish_anchor" /\ mine'[q] = mine[q]
    BY DEF Retreat
  <2>2. \A r \in Proc : mine'[r] = mine[r] \/ mine'[r].ledger \notin Token
    BY ConstantsAssumption DEF Retreat, NoLease
  <2> QED
    BY <2>1, <2>2 DEF NewLedgerUnused, Retreat
<1>5. ClaimsAreNamed' /\ OneClaimPerName'
  BY DEF Retreat, ClaimsAreNamed, OneClaimPerName
<1>6. ClaimsSettled'
  BY <1>0, SettledKept DEF Retreat, ClaimsSettled
<1>7. CandidateSettled'
  <2> SUFFICES ASSUME NEW q \in Proc, pc'[q] = "publish_claim", mine'[q].ledger = anchor'
               PROVE  SettledBelow(mine[q].gen)' /\ mine'[q] = mine[q]
    BY DEF CandidateSettled, SettledBelow
  <2>1. pc[q] = "publish_claim" /\ mine'[q] = mine[q] /\ anchor' = anchor
    BY DEF Retreat
  <2> QED
    BY <1>0, <2>1, SettledKept DEF Retreat, CandidateSettled
<1> QED
  BY <1>1, <1>2, <1>3, <1>4, <1>5, <1>6, <1>7
(* The actions that are retreats.                                          *)
LEMMA QuietRetreat ==
  ASSUME IInv, NEW p \in Proc,
         \/ Start(p) \/ AnchorMissing(p) \/ RefuseOrphans(p) \/ NoOrphans(p)
         \/ ListLedger(p) \/ DecideRefuse(p) \/ DecideAgain(p) \/ PublishBeat(p)
         \/ Confirm(p) \/ Release(p) \/ NoticeLoss(p) \/ DropGuard(p)
         \/ ReadFails(p) \/ Crash(p)
  PROVE  Retreat(p)
<1> USE DEF IInv, TypeOK, Retreat, Claimant, Engaged, Goto, At, files
<1>1. CASE Start(p)
  BY <1>1 DEF Start
<1>2. CASE AnchorMissing(p)
  BY <1>2 DEF AnchorMissing, Leave
<1>3. CASE RefuseOrphans(p)
  BY <1>3 DEF RefuseOrphans, Leave
<1>4. CASE NoOrphans(p)
  BY <1>4 DEF NoOrphans
<1>5. CASE ListLedger(p)
  BY <1>5 DEF ListLedger
<1>6. CASE DecideRefuse(p)
  BY <1>6 DEF DecideRefuse, Leave
<1>7. CASE DecideAgain(p)
  <2>1. /\ pc[p] = "decide_again"
        /\ Leave(p) \/ (UNCHANGED mine /\ (Goto(p, "publish_beat") \/ Goto(p, "list")))
        /\ UNCHANGED files
    BY <1>7 DEF DecideAgain
  <2> QED
    BY <2>1 DEF Leave
<1>8. CASE PublishBeat(p)
  <2>1. /\ pc[p] = "publish_beat"
        /\ Goto(p, "confirm") \/ Goto(p, "release")
        /\ UNCHANGED <<anchor, claims, releases, mine>>
    BY <1>8 DEF PublishBeat
  <2> QED
    BY <2>1
<1>9. CASE Confirm(p)
  <2>1. /\ pc[p] = "confirm"
        /\ Goto(p, "held") \/ Goto(p, "release")
        /\ UNCHANGED <<anchor, claims, releases, mine>>
    BY <1>9 DEF Confirm
  <2> QED
    BY <2>1
<1>10. CASE Release(p)
  <2>1. /\ pc[p] = "release" /\ Leave(p)
        /\ releases' = releases \/ releases' = releases \cup {mine[p]}
        /\ UNCHANGED <<anchor, claims>>
    BY <1>10 DEF Release
  <2> QED
    BY <2>1 DEF Leave
<1>11. CASE NoticeLoss(p)
  BY <1>11 DEF NoticeLoss
<1>12. CASE DropGuard(p)
  BY <1>12 DEF DropGuard
<1>13. CASE ReadFails(p)
  BY <1>13 DEF ReadFails, Leave
<1>14. CASE Crash(p)
  BY <1>14 DEF Crash, Leave
<1> QED
  BY <1>1, <1>2, <1>3, <1>4, <1>5, <1>6, <1>7, <1>8, <1>9, <1>10, <1>11, <1>12, <1>13, <1>14

-----------------------------------------------------------------------------
LEMMA UseAnchorStep == ASSUME IInv, NEW p \in Proc, UseAnchor(p) PROVE Safe'
<1> USE DEF IInv, Safe
<1>0. /\ anchor \in Token
      /\ mine' = [mine EXCEPT ![p] = [NoLease EXCEPT !.ledger = anchor]]
      /\ pc' = [pc EXCEPT ![p] = "list"]
      /\ anchor' = anchor /\ claims' = claims /\ releases' = releases
      /\ pc \in [Proc -> Locations] /\ mine \in [Proc -> Lease]
  BY DEF UseAnchor, Goto, files, TypeOK, TokenOrAbsent
<1>1. /\ mine'[p].ledger = anchor /\ mine'[p].owner \notin Token /\ pc'[p] = "list"
      /\ \A q \in Proc : q # p => pc'[q] = pc[q] /\ mine'[q] = mine[q]
  BY <1>0, ConstantsAssumption DEF NoLease
<1>2. \A q \in Proc : Claimant(q)' => q # p /\ Claimant(q)
  BY <1>1 DEF Claimant
<1>3. ClaimantIsNamed' /\ NotReleased'
  BY <1>0, <1>1, <1>2 DEF ClaimantIsNamed, NotReleased, Engaged
<1>4. OwnersDiffer'
  BY <1>1 DEF OwnersDiffer
<1>5. NewLedgerUnused'
  BY <1>0, <1>1 DEF NewLedgerUnused
<1>6. ClaimsAreNamed' /\ OneClaimPerName'
  BY <1>0 DEF ClaimsAreNamed, OneClaimPerName
<1>7. ClaimsSettled'
  BY <1>0 DEF ClaimsSettled, SettledBelow
<1>8. CandidateSettled'
  BY <1>0, <1>1 DEF CandidateSettled, SettledBelow
<1> QED
  BY <1>3, <1>4, <1>5, <1>6, <1>7, <1>8

LEMMA DrawLedgerIdStep == ASSUME IInv, NEW p \in Proc, DrawLedgerId(p) PROVE Safe'
<1> USE DEF IInv, Safe
<1>0. PICK t \in Token : Fresh(t) /\ mine' = [mine EXCEPT ![p] = [NoLease EXCEPT !.ledger = t]]
  BY DEF DrawLedgerId, Draws
<1>1. /\ pc' = [pc EXCEPT ![p] = "publish_anchor"]
      /\ anchor' = anchor /\ claims' = claims /\ releases' = releases
      /\ pc \in [Proc -> Locations] /\ mine \in [Proc -> Lease]
  BY DEF DrawLedgerId, At, Goto, files, TypeOK
<1>2. /\ mine'[p].ledger = t /\ mine'[p].owner \notin Token /\ pc'[p] = "publish_anchor"
      /\ \A q \in Proc : q # p => pc'[q] = pc[q] /\ mine'[q] = mine[q]
  BY <1>0, <1>1, ConstantsAssumption DEF NoLease
<1>3. t # anchor /\ (\A c \in claims : c.ledger # t) /\ \A q \in Proc : mine[q].ledger # t
  BY <1>0 DEF Fresh, Carries, Artifacts, Ledger
<1>4. \A q \in Proc : Claimant(q)' => q # p /\ Claimant(q)
  BY <1>2 DEF Claimant
<1>5. ClaimantIsNamed' /\ NotReleased'
  BY <1>1, <1>2, <1>4 DEF ClaimantIsNamed, NotReleased, Engaged
<1>6. OwnersDiffer'
  BY <1>2 DEF OwnersDiffer
<1>7. NewLedgerUnused'
  BY <1>0, <1>1, <1>2, <1>3 DEF NewLedgerUnused
<1>8. ClaimsAreNamed' /\ OneClaimPerName'
  BY <1>1 DEF ClaimsAreNamed, OneClaimPerName
<1>9. ClaimsSettled'
  BY <1>1 DEF ClaimsSettled, SettledBelow
<1>10. CandidateSettled'
  BY <1>1, <1>2 DEF CandidateSettled, SettledBelow
<1> QED
  BY <1>5, <1>6, <1>7, <1>8, <1>9, <1>10
(* A new anchor makes no old claim and no waiting candidate current.       *)
LEMMA PublishAnchorStep == ASSUME IInv, NEW p \in Proc, PublishAnchor(p) PROVE Safe'
<1> USE DEF IInv, Safe
<1>0. /\ pc[p] = "publish_anchor"
      /\ anchor' = mine[p].ledger \/ anchor' = anchor
      /\ pc' = [pc EXCEPT ![p] = "list"] \/ pc' = [pc EXCEPT ![p] = "adopt_anchor"]
      /\ claims' = claims /\ releases' = releases /\ mine' = mine
      /\ pc \in [Proc -> Locations] /\ mine \in [Proc -> Lease]
  BY DEF PublishAnchor, Goto, TypeOK
<1>1. /\ pc'[p] \in {"list", "adopt_anchor"}
      /\ \A q \in Proc : q # p => pc'[q] = pc[q]
  BY <1>0
<1>2. \A q \in Proc : Claimant(q)' => q # p /\ Claimant(q)
  BY <1>1 DEF Claimant
<1>3. /\ mine[p].ledger \in Token
      /\ \A c \in claims : c.ledger # mine[p].ledger
      /\ \A q \in Proc : q # p => mine[q].ledger # mine[p].ledger
  BY <1>0 DEF NewLedgerUnused
<1>4. ClaimantIsNamed' /\ NotReleased'
  BY <1>0, <1>1, <1>2, <1>3 DEF ClaimantIsNamed, NotReleased, Engaged
<1>5. OwnersDiffer' /\ ClaimsAreNamed' /\ OneClaimPerName'
  BY <1>0 DEF OwnersDiffer, ClaimsAreNamed, OneClaimPerName
<1>6. NewLedgerUnused'
  <2> SUFFICES ASSUME NEW q \in Proc, pc'[q] = "publish_anchor"
               PROVE  /\ mine[q].ledger \in Token /\ mine[q].ledger # anchor'
                      /\ \A r \in Proc : r # q => mine[r].ledger # mine[q].ledger
                      /\ \A c \in claims : c.ledger # mine[q].ledger
    BY <1>0 DEF NewLedgerUnused
  <2>1. q # p /\ pc[q] = "publish_anchor"
    BY <1>1
  <2> QED
    BY <1>0, <1>3, <2>1 DEF NewLedgerUnused
<1>7. ClaimsSettled'
  <2>1. CASE anchor' = mine[p].ledger
    BY <1>0, <1>3, <2>1 DEF ClaimsSettled
  <2>2. CASE anchor' = anchor
    BY <1>0, <2>2 DEF ClaimsSettled, SettledBelow
  <2> QED
    BY <1>0, <2>1, <2>2
<1>8. CandidateSettled'
  <2>1. CASE anchor' = mine[p].ledger
    BY <1>0, <1>1, <1>3, <2>1 DEF CandidateSettled
  <2>2. CASE anchor' = anchor
    BY <1>0, <1>1, <2>2 DEF CandidateSettled, SettledBelow
  <2> QED
    BY <1>0, <2>1, <2>2
<1> QED
  BY <1>4, <1>5, <1>6, <1>7, <1>8

(* What inspect_ledger may conclude from a listing that missed part of     *)
(* what was written meanwhile: if a view of the current ledger calls       *)
(* generation g free, then all generations below g are claimed and         *)
(* released, whatever the view missed.                                     *)
LEMMA FreeIsSettled ==
  ASSUME IInv, NEW p \in Proc, NEW v \in Views(p), NEW g \in 0..MaxGen,
         Free(v, anchor, g)
  PROVE  SettledBelow(g)
<1>1. v.claims \subseteq claims /\ v.releases \subseteq releases
  BY DEF Views, Listings
<1>2. /\ \A c \in v.claims : c.ledger = anchor
      /\ \A c \in v.claims : \A h \in 0..c.gen : \E d \in v.claims : d.gen = h
      /\ \A c, d \in v.claims : c.gen < d.gen => c \in v.releases
  BY DEF Free, WellFormed, Artifacts
<1>3. CASE v.claims = {} /\ g = 0
  <2>1. claims \subseteq Lease
    BY DEF IInv, TypeOK
  <2> QED
    BY <1>3, <2>1, ConstantsAssumption DEF SettledBelow, Lease
<1>4. CASE \E c \in v.claims \cap v.releases : IsLatest(c, v) /\ g = c.gen + 1
  <2>1. PICK c \in v.claims \cap v.releases : IsLatest(c, v) /\ g = c.gen + 1
    BY <1>4
  <2>2. claims \subseteq Lease /\ c \in Lease
    BY <1>1, <2>1 DEF IInv, TypeOK
  <2>3. \A h \in 0..MaxGen : h < g => \E d \in v.claims : d.gen = h
    BY <1>2, <2>1, <2>2, ConstantsAssumption DEF Lease
  <2>4. \A d \in v.claims : d \in v.releases
    <3> SUFFICES ASSUME NEW d \in v.claims PROVE d \in v.releases
      OBVIOUS
    <3>1. d.gen <= c.gen /\ d.gen \in 0..MaxGen /\ c.gen \in 0..MaxGen
      BY <1>1, <2>1, <2>2 DEF IsLatest, Lease
    <3>2. CASE d.gen < c.gen
      BY <1>2, <2>1, <3>2
    <3>3. CASE d.gen = c.gen
      <4>1. d = c
        BY <1>1, <1>2, <2>1, <3>3 DEF IInv, Safe, OneClaimPerName
      <4> QED
        BY <2>1, <4>1
    <3> QED
      BY <3>1, <3>2, <3>3, ConstantsAssumption
  <2>5. \A d \in claims : d.ledger = anchor /\ d.gen < g => d \in releases
    <3> SUFFICES ASSUME NEW d \in claims, d.ledger = anchor, d.gen < g
                 PROVE  d \in releases
      OBVIOUS
    <3>1. PICK e \in v.claims : e.gen = d.gen
      BY <2>2, <2>3 DEF Lease
    <3>2. e = d
      BY <1>1, <1>2, <3>1 DEF IInv, Safe, OneClaimPerName
    <3> QED
      BY <1>1, <2>4, <3>2
  <2> QED
    BY <1>1, <1>2, <2>3, <2>5 DEF SettledBelow
<1> QED
  BY <1>3, <1>4 DEF Free

LEMMA DecideStep == ASSUME IInv, NEW p \in Proc, Decide(p) PROVE Safe'
<1>0. PICK v \in Views(p), g \in 0..MaxGen, t \in Token :
        /\ Free(v, mine[p].ledger, g)
        /\ Fresh(t)
        /\ mine' = [mine EXCEPT ![p] = [ledger |-> mine[p].ledger, gen |-> g, owner |-> t]]
  BY DEF Decide, Draws
<1>1. /\ pc[p] = "decide" /\ pc' = [pc EXCEPT ![p] = "publish_claim"]
      /\ anchor' = anchor /\ claims' = claims /\ releases' = releases
      /\ pc \in [Proc -> Locations] /\ mine \in [Proc -> Lease]
  BY DEF Decide, At, Goto, files, IInv, TypeOK
<1>2. /\ mine'[p].ledger = mine[p].ledger /\ mine'[p].gen = g /\ mine'[p].owner = t
      /\ pc'[p] = "publish_claim"
      /\ \A q \in Proc : q # p => pc'[q] = pc[q] /\ mine'[q] = mine[q]
  BY <1>0, <1>1
<1>3. /\ \A r \in releases : r.owner # t
      /\ \A q \in Proc : mine[q].owner # t
  BY <1>0 DEF Fresh, Carries, Artifacts, Ledger
<1>4. \A q \in Proc : Claimant(q)' => q = p \/ Claimant(q)
  BY <1>2 DEF Claimant
<1>5. ClaimantIsNamed' /\ NotReleased'
  <2>1. mine[p].ledger \in Token
    BY <1>1 DEF IInv, Safe, ClaimantIsNamed, Engaged
  <2>2. mine'[p] \notin releases
    BY <1>2, <1>3
  <2> QED
    BY <1>1, <1>2, <1>4, <2>1, <2>2 DEF IInv, Safe, ClaimantIsNamed, NotReleased, Engaged
<1>6. OwnersDiffer'
  BY <1>2, <1>3 DEF IInv, Safe, OwnersDiffer
<1>7. NewLedgerUnused'
  BY <1>1, <1>2 DEF IInv, Safe, NewLedgerUnused
<1>8. ClaimsAreNamed' /\ OneClaimPerName'
  BY <1>1 DEF IInv, Safe, ClaimsAreNamed, OneClaimPerName
<1>9. ClaimsSettled'
  BY <1>1 DEF IInv, Safe, ClaimsSettled, SettledBelow
<1>10. CandidateSettled'
  <2> SUFFICES ASSUME NEW q \in Proc, pc'[q] = "publish_claim", mine'[q].ledger = anchor
               PROVE  SettledBelow(mine'[q].gen)
    BY <1>1 DEF CandidateSettled, SettledBelow
  <2>1. CASE q = p
    BY <1>0, <1>2, <2>1, FreeIsSettled
  <2>2. CASE q # p
    BY <1>2, <2>2 DEF IInv, Safe, CandidateSettled
  <2> QED
    BY <2>1, <2>2
<1> QED
  BY <1>5, <1>6, <1>7, <1>8, <1>9, <1>10 DEF Safe

(* The name was free, so no claim of a later generation stands, and the    *)
(* new one becomes the latest.                                             *)
LEMMA PublishClaimStep == ASSUME IInv, NEW p \in Proc, PublishClaim(p) PROVE Safe'
<1>1. /\ pc[p] = "publish_claim"
      /\ pc' = [pc EXCEPT ![p] = "publish_beat"] \/ pc' = [pc EXCEPT ![p] = "list_again"]
      /\ anchor' = anchor /\ releases' = releases /\ mine' = mine
      /\ pc \in [Proc -> Locations] /\ mine \in [Proc -> Lease]
      /\ claims \subseteq Lease
  BY DEF PublishClaim, Goto, IInv, TypeOK
<1>2. /\ pc'[p] \in {"publish_beat", "list_again"}
      /\ \A q \in Proc : q # p => pc'[q] = pc[q]
  BY <1>1
<1>3. \/ claims' = claims
      \/ /\ claims' = claims \cup {mine[p]}
         /\ ~ \E c \in claims : c.ledger = mine[p].ledger /\ c.gen = mine[p].gen
  BY DEF PublishClaim, Published, FailedAfter
<1>4. \A q \in Proc : Claimant(q)' => Claimant(q)
  BY <1>1, <1>2 DEF Claimant
<1>5. mine[p].ledger \in Token /\ mine[p].gen \in 0..MaxGen
  BY <1>1 DEF IInv, Safe, ClaimantIsNamed, Engaged, Claimant, Lease
<1>6. ClaimantIsNamed' /\ NotReleased' /\ OwnersDiffer'
  <2>1. \A q \in Proc : Engaged(q)' => Engaged(q)
    BY <1>2, <1>4, <1>1 DEF Engaged, Claimant
  <2> QED
    BY <1>1, <1>4, <2>1 DEF IInv, Safe, ClaimantIsNamed, NotReleased, OwnersDiffer
<1>7. NewLedgerUnused'
  <2> SUFFICES ASSUME NEW q \in Proc, pc'[q] = "publish_anchor"
               PROVE  /\ mine[q].ledger \in Token /\ mine[q].ledger # anchor
                      /\ \A r \in Proc : r # q => mine[r].ledger # mine[q].ledger
                      /\ \A c \in claims' : c.ledger # mine[q].ledger
    BY <1>1 DEF NewLedgerUnused
  <2>1. q # p /\ pc[q] = "publish_anchor"
    BY <1>2
  <2> QED
    BY <1>3, <2>1 DEF IInv, Safe, NewLedgerUnused
<1>8. ClaimsAreNamed' /\ OneClaimPerName'
  BY <1>3, <1>5 DEF IInv, Safe, ClaimsAreNamed, OneClaimPerName
<1>9. CASE claims' = claims
  <2>1. ClaimsSettled' /\ CandidateSettled'
    BY <1>1, <1>2, <1>9
    DEF IInv, Safe, ClaimsSettled, CandidateSettled, SettledBelow
  <2> QED
    BY <1>6, <1>7, <1>8, <2>1 DEF Safe
<1>10. CASE /\ claims' = claims \cup {mine[p]}
            /\ ~ \E c \in claims : c.ledger = mine[p].ledger /\ c.gen = mine[p].gen
  <2>1. ASSUME NEW g \in 0..MaxGen, SettledBelow(g), anchor = mine[p].ledger => g <= mine[p].gen
        PROVE  SettledBelow(g)'
    BY <1>1, <1>5, <1>10, <2>1 DEF SettledBelow
  <2>2. ASSUME NEW g \in 0..MaxGen, SettledBelow(g), anchor = mine[p].ledger
        PROVE  g <= mine[p].gen
    BY <1>5, <1>10, <2>2, ConstantsAssumption DEF SettledBelow
  <2>3. \A g \in 0..MaxGen : SettledBelow(g) => SettledBelow(g)'
    BY <2>1, <2>2
  <2>4. mine[p].ledger = anchor => SettledBelow(mine[p].gen)
    BY <1>1 DEF IInv, Safe, CandidateSettled
  <2>5. ClaimsSettled'
    <3> SUFFICES ASSUME NEW c \in claims', c.ledger = anchor PROVE SettledBelow(c.gen)'
      BY <1>1 DEF ClaimsSettled, SettledBelow
    <3>1. CASE c \in claims
      <4>1. SettledBelow(c.gen)
        BY <3>1 DEF IInv, Safe, ClaimsSettled
      <4>2. c.gen \in 0..MaxGen
        BY <1>1, <3>1 DEF Lease
      <4> QED
        BY <2>3, <4>1, <4>2
    <3>2. CASE c = mine[p]
      BY <1>5, <2>3, <2>4, <3>2
    <3> QED
      BY <1>10, <3>1, <3>2
  <2>6. CandidateSettled'
    <3> SUFFICES ASSUME NEW q \in Proc, pc'[q] = "publish_claim", mine[q].ledger = anchor
                 PROVE  SettledBelow(mine[q].gen)'
      BY <1>1 DEF CandidateSettled, SettledBelow
    <3>1. pc[q] = "publish_claim" /\ mine[q].gen \in 0..MaxGen
      BY <1>1, <1>2 DEF Lease
    <3>2. PICK g \in 0..MaxGen : g = mine[q].gen
      BY <3>1
    <3>3. SettledBelow(g)
      BY <3>1, <3>2 DEF IInv, Safe, CandidateSettled
    <3>4. SettledBelow(g)'
      BY <2>3, <3>3
    <3> QED
      BY <1>1, <3>2, <3>4 DEF SettledBelow
  <2> QED
    BY <1>6, <1>7, <1>8, <2>5, <2>6 DEF Safe
<1> QED
  BY <1>3, <1>9, <1>10

LEMMA RemovalStep == ASSUME IInv, RemoveLedger \/ LoseAnchor PROVE Safe'
<1>1. /\ anchor' = Absent /\ claims' \subseteq claims /\ releases' \subseteq releases
      /\ pc' = pc /\ mine' = mine
  BY DEF RemoveLedger, LoseAnchor
<1>2. ClaimantIsNamed' /\ OwnersDiffer' /\ NotReleased'
  BY <1>1 DEF IInv, Safe, ClaimantIsNamed, OwnersDiffer, NotReleased, Engaged, Claimant
<1>3. NewLedgerUnused' /\ ClaimsAreNamed' /\ OneClaimPerName'
  BY <1>1, ConstantsAssumption
  DEF IInv, Safe, NewLedgerUnused, ClaimsAreNamed, OneClaimPerName
<1>4. ClaimsSettled'
  BY <1>1, ConstantsAssumption DEF IInv, Safe, ClaimsSettled, ClaimsAreNamed
<1>5. CandidateSettled'
  BY <1>1, ConstantsAssumption
  DEF IInv, Safe, CandidateSettled, ClaimantIsNamed, Engaged, Claimant
<1> QED
  BY <1>2, <1>3, <1>4, <1>5 DEF Safe
LEMMA NextStep == ASSUME IInv, [Next]_vars PROVE Safe'
<1>1. ASSUME NEW p \in Proc, Start(p) \/ NoticeLoss(p) \/ DropGuard(p) \/ ReadFails(p) \/ Crash(p)
      PROVE  Safe'
  BY <1>1, QuietRetreat, RetreatStep
<1>2. ASSUME NEW p \in Proc, Step(p) PROVE Safe'
  BY <1>2, QuietRetreat, RetreatStep, UseAnchorStep, DrawLedgerIdStep, PublishAnchorStep,
     DecideStep, PublishClaimStep DEF Step
<1>3. CASE RemoveLedger \/ LoseAnchor
  BY <1>3, RemovalStep
<1>4. CASE UNCHANGED vars
  BY <1>4
  DEF vars, files, IInv, Safe, ClaimantIsNamed, Engaged, Claimant, OwnersDiffer, NotReleased,
      NewLedgerUnused, ClaimsAreNamed, OneClaimPerName, ClaimsSettled, CandidateSettled,
      SettledBelow
<1> QED
  BY <1>1, <1>2, <1>3, <1>4 DEF Next

THEOREM Invariance == Spec => []IInv
<1>1. Init => IInv
  <2>1. Init => TypeOK
    BY ConstantsAssumption
    DEF Init, TypeOK, TokenOrAbsent, Lease, NoLease, NoListing, Locations
  <2>2. Init => Safe
    BY ConstantsAssumption
    DEF Init, Safe, ClaimantIsNamed, Engaged, Claimant, OwnersDiffer, NotReleased, NoLease,
        NewLedgerUnused, ClaimsAreNamed, OneClaimPerName, ClaimsSettled, CandidateSettled
  <2> QED
    BY <2>1, <2>2 DEF IInv
<1>2. IInv /\ [Next]_vars => IInv'
  BY TypeStep, NextStep DEF IInv
<1> QED
  BY <1>1, <1>2, PTL DEF Spec

-----------------------------------------------------------------------------
(* However the ledger is deleted, however publications and reads fail: two *)
(* guards whose identity check would succeed are the same guard.           *)
THEOREM OneOwnerAlways == Spec => []OneOwner
<1>1. IInv => OneOwner
  <2> SUFFICES ASSUME IInv, NEW p \in Proc, NEW q \in Proc, Owns(p), Owns(q), p # q
               PROVE  FALSE
    BY DEF OneOwner
  <2>1. /\ Claimant(p) /\ mine[p].ledger = anchor /\ mine[p] \in claims
        /\ Claimant(q) /\ mine[q].ledger = anchor /\ mine[q] \in claims
    BY DEF Owns, IdentityCurrent, Claimant
  <2>2. mine[p].gen \in 0..MaxGen /\ mine[q].gen \in 0..MaxGen
    BY DEF IInv, TypeOK, Lease
  <2>3. ~(mine[p].gen < mine[q].gen) /\ ~(mine[q].gen < mine[p].gen)
    BY <2>1, <2>2 DEF IInv, Safe, ClaimsSettled, SettledBelow, NotReleased
  <2>4. mine[p] = mine[q]
    BY <2>1, <2>2, <2>3, ConstantsAssumption DEF IInv, Safe, OneClaimPerName
  <2> QED
    BY <2>1, <2>4 DEF IInv, Safe, OwnersDiffer, ClaimantIsNamed, Engaged
<1> QED
  BY <1>1, Invariance, PTL

(* No claim is ever taken over: its successor exists only once it was      *)
(* released, so a crashed or silent owner keeps the root until somebody    *)
(* deletes the ledger.                                                     *)
THEOREM NoTakeoverAlways == Spec => []NoTakeover
<1>1. IInv => NoTakeover
  <2> SUFFICES ASSUME IInv, NEW c \in claims, c.ledger = anchor, c.gen > 0
               PROVE  \E r \in releases : r.ledger = c.ledger /\ r.gen = c.gen - 1
    BY DEF NoTakeover
  <2>1. c.gen \in 0..MaxGen
    BY DEF IInv, TypeOK, Lease
  <2>2. c.gen - 1 \in 0..MaxGen /\ c.gen - 1 < c.gen
    BY <2>1, ConstantsAssumption
  <2>3. SettledBelow(c.gen)
    BY DEF IInv, Safe, ClaimsSettled
  <2>4. PICK d \in claims : d.ledger = anchor /\ d.gen = c.gen - 1
    BY <2>2, <2>3 DEF SettledBelow
  <2> QED
    BY <2>2, <2>3, <2>4 DEF SettledBelow
<1> QED
  BY <1>1, Invariance, PTL
-----------------------------------------------------------------------------
(* What holds besides when files are only deleted while everybody is idle. *)
Posted(p) == pc[p] \in {"publish_beat", "confirm", "held", "release"}

(* Before an anchor is read, or while one is being looked for.             *)
Outside(p) == pc[p] \in {"idle", "read_anchor", "list_orphans"}

Orderly ==
  /\ \A p \in Proc : Engaged(p) => mine[p].ledger = anchor
  /\ \A p \in Proc : Posted(p) => mine[p] \in claims
  /\ beats \subseteq claims /\ releases \subseteq claims
  /\ anchor # Absent => \A c \in claims : c.ledger = anchor
  /\ anchor = Absent /\ claims # {} => \A p \in Proc : Outside(p)

(* The steps that touch no file but perhaps publish a heartbeat or release.*)
Mild(p) ==
  /\ anchor' = anchor /\ claims' = claims
  /\ beats' = beats \/ (Posted(p) /\ beats' = beats \cup {mine[p]})
  /\ releases' = releases \/ (Posted(p) /\ releases' = releases \cup {mine[p]})
  /\ \A q \in Proc : q # p => pc'[q] = pc[q] /\ mine'[q] = mine[q]
  /\ \/ pc'[p] \in {"idle", "read_anchor", "list_orphans"}
     \/ /\ mine'[p] = mine[p]
        /\ Engaged(p)' => Engaged(p)
        /\ Posted(p)' => Posted(p) \/ mine[p] \in claims
        /\ Outside(p) => Outside(p)' \/ claims = {}

LEMMA MildStep == ASSUME IInv, Orderly, NEW p \in Proc, Mild(p) PROVE Orderly'
<1>1. \A q \in Proc : Engaged(q)' => Engaged(q) /\ mine'[q] = mine[q]
  BY DEF Mild, Engaged, Claimant
<1>2. \A q \in Proc : Posted(q)' => mine'[q] \in claims
  BY DEF Mild, Posted, Orderly
<1>3. anchor = Absent /\ claims # {} => \A q \in Proc : Outside(q)'
  BY DEF Mild, Outside, Orderly
<1> QED
  BY <1>1, <1>2, <1>3 DEF Mild, Orderly

LEMMA MildActions ==
  ASSUME IInv, Orderly, NEW p \in Proc,
         \/ Start(p) \/ AnchorMissing(p) \/ RefuseOrphans(p) \/ NoOrphans(p)
         \/ ListLedger(p) \/ DecideRefuse(p) \/ DecideAgain(p) \/ PublishBeat(p)
         \/ Confirm(p) \/ Release(p) \/ NoticeLoss(p) \/ DropGuard(p)
         \/ ReadFails(p) \/ Crash(p)
  PROVE  Mild(p)
<1> USE DEF Mild, Posted, Engaged, Claimant, Outside, Goto, At, files
<1>0. pc \in [Proc -> Locations] /\ mine \in [Proc -> Lease]
  BY DEF IInv, TypeOK
<1>1. CASE Start(p)
  BY <1>0, <1>1 DEF Start
<1>2. CASE AnchorMissing(p)
  BY <1>0, <1>2 DEF AnchorMissing, Leave
<1>3. CASE RefuseOrphans(p)
  BY <1>0, <1>3 DEF RefuseOrphans, Leave
<1>4. CASE NoOrphans(p)
  BY <1>0, <1>4 DEF NoOrphans, Artifacts, Ledger
<1>5. CASE ListLedger(p)
  BY <1>0, <1>5 DEF ListLedger
<1>6. CASE DecideRefuse(p)
  BY <1>0, <1>6 DEF DecideRefuse, Leave
<1>7. CASE DecideAgain(p)
  <2>1. PICK verdict \in Verdicts(p) :
          IF verdict = "refuse" THEN Leave(p)
          ELSE Goto(p, IF verdict = "ours" THEN "publish_beat" ELSE "list") /\ mine' = mine
    BY <1>7 DEF DecideAgain
  <2>2. verdict = "ours" => mine[p] \in claims
    <3> SUFFICES ASSUME verdict = "ours" PROVE mine[p] \in claims
      OBVIOUS
    <3>1. PICK v \in Views(p) : "ours" = Verdict(p, v)
      BY <2>1 DEF Verdicts
    <3>2. mine[p] \in v.claims
      BY <3>1 DEF Verdict, Unreleased, IsLatest
    <3> QED
      BY <3>2 DEF Views, Listings
  <2>3. pc[p] = "decide_again" /\ UNCHANGED files
    BY <1>7 DEF DecideAgain
  <2> QED
    BY <1>0, <2>1, <2>2, <2>3 DEF Leave
<1>8. CASE PublishBeat(p)
  <2>1. /\ pc[p] = "publish_beat"
        /\ Goto(p, "confirm") \/ Goto(p, "release")
        /\ beats' = beats \/ beats' = beats \cup {mine[p]}
        /\ UNCHANGED <<anchor, claims, releases, mine>>
    BY <1>8 DEF PublishBeat
  <2> QED
    BY <1>0, <2>1
<1>9. CASE Confirm(p)
  <2>1. /\ pc[p] = "confirm"
        /\ Goto(p, "held") \/ Goto(p, "release")
        /\ UNCHANGED <<anchor, claims, beats, releases, mine>>
    BY <1>9 DEF Confirm
  <2> QED
    BY <1>0, <2>1
<1>10. CASE Release(p)
  <2>1. /\ pc[p] = "release" /\ Leave(p)
        /\ releases' = releases \/ releases' = releases \cup {mine[p]}
        /\ UNCHANGED <<anchor, claims, beats>>
    BY <1>10 DEF Release
  <2> QED
    BY <1>0, <2>1 DEF Leave
<1>11. CASE NoticeLoss(p)
  BY <1>0, <1>11 DEF NoticeLoss
<1>12. CASE DropGuard(p)
  BY <1>0, <1>12 DEF DropGuard
<1>13. CASE ReadFails(p)
  BY <1>0, <1>13 DEF ReadFails, Leave
<1>14. CASE Crash(p)
  BY <1>0, <1>14 DEF Crash, Leave
<1> QED
  BY <1>1, <1>2, <1>3, <1>4, <1>5, <1>6, <1>7, <1>8, <1>9, <1>10, <1>11, <1>12, <1>13, <1>14
LEMMA OrderlyStep == ASSUME IInv, Orderly, ~Hasty, [Next]_vars PROVE Orderly'
<1>0. pc \in [Proc -> Locations] /\ mine \in [Proc -> Lease]
  BY DEF IInv, TypeOK
<1>1. ASSUME NEW p \in Proc, Start(p) \/ NoticeLoss(p) \/ DropGuard(p) \/ ReadFails(p) \/ Crash(p)
      PROVE  Orderly'
  BY <1>1, MildActions, MildStep
<1>2. ASSUME NEW p \in Proc, UseAnchor(p) PROVE Orderly'
  <2>1. /\ anchor # Absent /\ mine'[p].ledger = anchor /\ pc'[p] = "list"
        /\ UNCHANGED files
        /\ \A q \in Proc : q # p => pc'[q] = pc[q] /\ mine'[q] = mine[q]
    BY <1>0, <1>2 DEF UseAnchor, Goto, NoLease
  <2> QED
    BY <2>1 DEF Orderly, Engaged, Claimant, Posted, files
<1>3. ASSUME NEW p \in Proc, DrawLedgerId(p) PROVE Orderly'
  <2>1. /\ anchor = Absent /\ pc[p] = "reread_anchor" /\ pc'[p] = "publish_anchor"
        /\ UNCHANGED files
        /\ \A q \in Proc : q # p => pc'[q] = pc[q] /\ mine'[q] = mine[q]
    BY <1>0, <1>3 DEF DrawLedgerId, At, Goto
  <2>2. claims = {}
    BY <2>1 DEF Orderly, Outside
  <2> QED
    BY <2>1, <2>2 DEF Orderly, Engaged, Claimant, Posted, files
<1>4. ASSUME NEW p \in Proc, PublishAnchor(p) PROVE Orderly'
  <2>1. /\ pc[p] = "publish_anchor" /\ pc'[p] \in {"list", "adopt_anchor"}
        /\ UNCHANGED <<claims, beats, releases, mine>>
        /\ \A q \in Proc : q # p => pc'[q] = pc[q]
    BY <1>0, <1>4 DEF PublishAnchor, Goto
  <2>2. mine[p].ledger \in Token
    BY <2>1 DEF IInv, Safe, NewLedgerUnused
  <2>3. CASE anchor' = mine[p].ledger /\ anchor = Absent
    <3>1. claims = {}
      BY <2>1, <2>3 DEF Orderly, Outside
    <3>2. \A q \in Proc : ~Engaged(q)
      BY <2>3, ConstantsAssumption DEF Orderly, IInv, Safe, ClaimantIsNamed
    <3> QED
      BY <2>1, <2>2, <2>3, <3>1, <3>2, ConstantsAssumption
      DEF Orderly, Engaged, Claimant, Posted
  <2>4. CASE anchor' = anchor /\ pc'[p] = "adopt_anchor"
    BY <2>1, <2>4 DEF Orderly, Engaged, Claimant, Posted, Outside
  <2> QED
    BY <1>0, <1>4, <2>3, <2>4 DEF PublishAnchor, Published, FailedAfter, Goto
<1>5. ASSUME NEW p \in Proc, Decide(p) PROVE Orderly'
  <2>1. /\ pc[p] = "decide" /\ pc'[p] = "publish_claim" /\ mine'[p].ledger = mine[p].ledger
        /\ UNCHANGED files
        /\ \A q \in Proc : q # p => pc'[q] = pc[q] /\ mine'[q] = mine[q]
    BY <1>0, <1>5 DEF Decide, At, Goto
  <2> QED
    BY <2>1 DEF Orderly, Engaged, Claimant, Posted, Outside, files
<1>6. ASSUME NEW p \in Proc, PublishClaim(p) PROVE Orderly'
  <2>1. /\ pc[p] = "publish_claim" /\ UNCHANGED <<anchor, beats, releases, mine>>
        /\ \A q \in Proc : q # p => pc'[q] = pc[q]
        /\ \/ claims' = claims \cup {mine[p]} /\ pc'[p] \in {"publish_beat", "list_again"}
           \/ claims' = claims /\ pc'[p] = "list_again"
    BY <1>0, <1>6 DEF PublishClaim, Goto
  <2>2. mine[p].ledger = anchor /\ anchor # Absent
    BY <2>1, ConstantsAssumption
    DEF Orderly, IInv, Safe, ClaimantIsNamed, Engaged, Claimant
  <2> QED
    BY <2>1, <2>2 DEF Orderly, Engaged, Claimant, Posted
<1>7. CASE RemoveLedger \/ LoseAnchor
  <2>1. /\ anchor' = Absent /\ pc' = pc
        /\ \/ claims' = claims /\ beats' = beats /\ releases' = releases
           \/ claims' = {} /\ beats' = {} /\ releases' = {}
        /\ \A p \in Proc : pc[p] = "idle"
    BY <1>7 DEF RemoveLedger, LoseAnchor, MayDelete
  <2> QED
    BY <2>1 DEF Orderly, Engaged, Claimant, Posted, Outside
<1>8. CASE UNCHANGED vars
  BY <1>8 DEF vars, files, Orderly, Engaged, Claimant, Posted, Outside
<1> QED
  BY <1>1, <1>2, <1>3, <1>4, <1>5, <1>6, <1>7, <1>8, MildActions, MildStep DEF Next, Step

LEMMA OrderlyAlways == Spec => [](~Hasty => Orderly)
<1>1. Init => Orderly
  BY ConstantsAssumption DEF Init, Orderly, Engaged, Claimant, Posted, Outside
<1>2. IInv /\ (~Hasty => Orderly) /\ [Next]_vars => (~Hasty => Orderly)'
  BY OrderlyStep
<1> QED
  BY <1>1, <1>2, Invariance, PTL DEF Spec

(* As long as nobody deletes lock files under running owners, one guard at *)
(* most exists, checked or not.                                            *)
THEOREM MutualExclusionAlways == Spec => []MutualExclusion
<1>1. IInv /\ OneOwner /\ (~Hasty => Orderly) => MutualExclusion
  BY DEF MutualExclusion, OneOwner, Owns, IdentityCurrent, Orderly, Engaged, Claimant, Posted
<1> QED
  BY <1>1, Invariance, OneOwnerAlways, OrderlyAlways, PTL

(* And the ledger the protocol leaves on disk passes its own inspection,   *)
(* so that the only thing that can lock a root is an unreleased claim.     *)
THEOREM LedgerStaysReadableAlways == Spec => []LedgerStaysReadable
<1>1. IInv /\ (~Hasty => Orderly) => LedgerStaysReadable
  <2> SUFFICES ASSUME IInv, Orderly, anchor # Absent PROVE WellFormed(Ledger, anchor)
    BY DEF LedgerStaysReadable
  <2>1. \A c \in claims : c.ledger = anchor /\ c.gen \in 0..MaxGen /\ SettledBelow(c.gen)
    BY DEF Orderly, IInv, TypeOK, Lease, Safe, ClaimsSettled
  <2>2. \A a \in Artifacts(Ledger) : a.ledger = anchor
    BY <2>1 DEF Artifacts, Ledger, Orderly
  <2>3. \A c \in claims : \A g \in 0..c.gen : \E d \in claims : d.gen = g
    <3> SUFFICES ASSUME NEW c \in claims, NEW g \in 0..c.gen PROVE \E d \in claims : d.gen = g
      OBVIOUS
    <3>1. g = c.gen \/ (g \in 0..MaxGen /\ g < c.gen)
      BY <2>1, ConstantsAssumption
    <3> QED
      BY <2>1, <3>1 DEF SettledBelow
  <2>4. \A c, d \in claims : c.gen < d.gen => c \in releases
    BY <2>1 DEF SettledBelow
  <2> QED
    BY <2>2, <2>3, <2>4 DEF WellFormed, Ledger, Orderly
<1> QED
  BY <1>1, Invariance, OrderlyAlways, PTL

-----------------------------------------------------------------------------
(* The pause gate.                                                         *)

Standing(here) == {w \in Worker : place[w] = here}

Alternation ==
  pausedEvents + Cardinality(Standing("announcing"))
    = resumedEvents + Cardinality(Standing("resuming")) + (IF announced THEN 1 ELSE 0)

FlagIsWatched ==
  announced /\ ~cancel =>
    \E w \in Worker : place[w] \in {"announcing", "waiting", "napping", "leaving"}

\* A worker that came to the gate in the pause in force has not got past Wait.
HeldIsInside ==
  \A w \in held :
    paused /\ place[w] \in {"arrived", "admitted", "pausing", "announcing", "waiting",
                         "napping", "stopped"}

GateInv == GateTypeOK /\ Alternation /\ FlagIsWatched /\ HeldIsInside

-----------------------------------------------------------------------------
\* Who stands where is a finite set, so it can be counted.
LEMMA Counted ==
  ASSUME NEW here
  PROVE  IsFiniteSet(Standing(here)) /\ Cardinality(Standing(here)) \in Nat
<1>1. Standing(here) \in SUBSET Worker BY DEF Standing
<1>2. IsFiniteSet(Worker) BY PauseAssumption
<1>3. IsFiniteSet(Standing(here)) BY <1>1, <1>2, FS_Subset
<1> QED BY <1>3, FS_CardinalityType

\* A worker that comes to a place is one more there.
LEMMA OneMore ==
  ASSUME GateTypeOK, NEW w \in Worker, NEW from, NEW to \in Places,
         Go(w, from, to), from # to
  PROVE  Cardinality(Standing(to)') = Cardinality(Standing(to)) + 1
<1>1. Standing(to)' = Standing(to) \cup {w} /\ w \notin Standing(to) BY DEF Standing, Go, GateTypeOK
<1> QED BY <1>1, Counted, FS_AddElement

\* A worker that leaves a place is one less there.
LEMMA OneLess ==
  ASSUME GateTypeOK, NEW w \in Worker, NEW from, NEW to \in Places,
         Go(w, from, to), from # to
  PROVE  Cardinality(Standing(from)') = Cardinality(Standing(from)) - 1
<1>1. Standing(from)' = Standing(from) \ {w} /\ w \in Standing(from) BY DEF Standing, Go, GateTypeOK
<1> QED BY <1>1, Counted, FS_RemoveElement

\* A worker that passes between two other places leaves the count as it is.
LEMMA Same ==
  ASSUME GateTypeOK, NEW w \in Worker, NEW from, NEW to \in Places,
         Go(w, from, to), NEW here, here # from, here # to
  PROVE  Standing(here)' = Standing(here)
BY DEF Standing, Go, GateTypeOK

-----------------------------------------------------------------------------
LEMMA GateInitially == GateInit => GateInv
<1> SUFFICES ASSUME GateInit PROVE GateInv OBVIOUS
<1>m. MaxPauses \in Nat BY PauseAssumption DEF PauseAssumption
<1>p. place \in [Worker -> Places] BY DEF GateInit, Places
<1>c. pauses \in 0 .. MaxPauses /\ pausedEvents \in Nat /\ resumedEvents \in Nat
  BY <1>m DEF GateInit
<1>1. GateTypeOK BY <1>c, <1>p DEF GateInit, GateTypeOK
<1>2. Standing("announcing") = {} /\ Standing("resuming") = {} BY DEF GateInit, Standing
<1>3. Alternation BY <1>2, FS_EmptySet DEF GateInit, Alternation
<1>4. FlagIsWatched BY DEF GateInit, FlagIsWatched
<1>5. HeldIsInside BY DEF GateInit, HeldIsInside
<1> QED BY <1>1, <1>3, <1>4, <1>5 DEF GateInv

LEMMA GateTypesStay ==
  ASSUME GateTypeOK, [GateNext]_gateVars
  PROVE  GateTypeOK'
<1>m. MaxPauses \in Nat BY PauseAssumption DEF PauseAssumption
<1>p. ASSUME NEW w \in Worker, NEW from, NEW to \in Places, Go(w, from, to)
      PROVE  place' \in [Worker -> Places]
  BY <1>p DEF Go, GateTypeOK
<1>1. CASE Pause \/ Resume \/ Cancel \/ UNCHANGED gateVars
  <2>1. place' = place BY <1>1 DEF Pause, Resume, Cancel, gateVars
  <2>2. UNCHANGED <<announced, events>>
    BY <1>1 DEF Pause, Resume, Cancel, gateVars
  <2>3. paused' \in BOOLEAN /\ cancel' \in BOOLEAN
    BY <1>1 DEF Pause, Resume, Cancel, gateVars, switches, GateTypeOK
  <2>4. pauses' \in 0 .. MaxPauses
    BY <1>1, <1>m DEF Pause, Resume, Cancel, gateVars, GateTypeOK
  <2>5. held' \subseteq Worker
    BY <1>1 DEF Pause, Resume, Cancel, gateVars, GateTypeOK
  <2> QED BY <2>1, <2>2, <2>3, <2>4, <2>5 DEF GateTypeOK, events
<1>2. ASSUME NEW w \in Worker,
             Arrive(w) \/ LoadCancel(w) \/ LoadPaused(w) \/ Wait(w) \/ Nap(w)
      PROVE  GateTypeOK'
  <2>1. PICK from, to \in Places : Go(w, from, to)
    BY <1>2 DEF Arrive, LoadCancel, LoadPaused, Wait, Nap, Places
  <2>2. place' \in [Worker -> Places] BY <1>p, <2>1
  <2>3. UNCHANGED <<switches, announced, events, pauses>> /\ held' \subseteq Worker
    BY <1>2 DEF Arrive, LoadCancel, LoadPaused, Wait, Nap, GateTypeOK
  <2> QED BY <2>2, <2>3 DEF GateTypeOK, switches, events
<1>3. ASSUME NEW w \in Worker, RaiseFlag(w) \/ LowerFlag(w)
      PROVE  GateTypeOK'
  <2>1. PICK from, to \in Places : Go(w, from, to)
    BY <1>3 DEF RaiseFlag, LowerFlag, Places
  <2>2. place' \in [Worker -> Places] BY <1>p, <2>1
  <2>3. UNCHANGED <<switches, events, pauses, held>> /\ announced' \in BOOLEAN
    BY <1>3 DEF RaiseFlag, LowerFlag
  <2> QED BY <2>2, <2>3 DEF GateTypeOK, switches, events
<1>4. ASSUME NEW w \in Worker, EmitPaused(w) \/ EmitResumed(w)
      PROVE  GateTypeOK'
  <2>1. PICK from, to \in Places : Go(w, from, to)
    BY <1>4 DEF EmitPaused, EmitResumed, Places
  <2>2. place' \in [Worker -> Places] BY <1>p, <2>1
  <2>3. UNCHANGED <<switches, announced, pauses, held>>
    BY <1>4 DEF EmitPaused, EmitResumed
  <2>4. pausedEvents' \in Nat /\ resumedEvents' \in Nat
    BY <1>4 DEF EmitPaused, EmitResumed, GateTypeOK
  <2> QED BY <2>2, <2>3, <2>4 DEF GateTypeOK, switches
<1> QED BY <1>1, <1>2, <1>3, <1>4 DEF GateNext, AtGate

-----------------------------------------------------------------------------
LEMMA AlternationStays ==
  ASSUME GateTypeOK, Alternation, [GateNext]_gateVars
  PROVE  Alternation'
<1> DEFINE Pausing == Cardinality(Standing("announcing"))
           Resuming == Cardinality(Standing("resuming"))
<1>n. Pausing \in Nat /\ Resuming \in Nat /\ pausedEvents \in Nat /\ resumedEvents \in Nat
  BY Counted DEF GateTypeOK
<1>e. pausedEvents + Pausing = resumedEvents + Resuming + (IF announced THEN 1 ELSE 0)
  BY DEF Alternation
<1> HIDE DEF Pausing, Resuming
<1>q. ASSUME UNCHANGED <<announced, events>>, Pausing' = Pausing, Resuming' = Resuming
      PROVE  Alternation'
  BY <1>q, <1>e DEF Alternation, Pausing, Resuming, events
<1>p. ASSUME NEW w \in Worker, NEW from, NEW to \in Places, Go(w, from, to),
             {from, to} \cap {"announcing", "resuming"} = {}
      PROVE  Pausing' = Pausing /\ Resuming' = Resuming
  <2>0. /\ "announcing" # from /\ "announcing" # to
        /\ "resuming" # from /\ "resuming" # to
    BY <1>p
  <2>1. Standing("announcing")' = Standing("announcing") BY <1>p, <2>0 DEF Standing, Go, GateTypeOK
  <2>2. Standing("resuming")' = Standing("resuming") BY <1>p, <2>0 DEF Standing, Go, GateTypeOK
  <2> QED BY <2>1, <2>2 DEF Pausing, Resuming
<1>1. CASE Pause \/ Resume \/ Cancel \/ UNCHANGED gateVars
  <2>1. UNCHANGED <<announced, events, place>>
    BY <1>1 DEF Pause, Resume, Cancel, gateVars, events
  <2>2. Pausing' = Pausing /\ Resuming' = Resuming BY <2>1 DEF Pausing, Resuming, Standing
  <2> QED BY <1>q, <2>1, <2>2
<1>2. ASSUME NEW w \in Worker,
             Arrive(w) \/ LoadCancel(w) \/ LoadPaused(w) \/ Wait(w) \/ Nap(w)
      PROVE  Alternation'
  <2>1. UNCHANGED <<announced, events>>
    BY <1>2 DEF Arrive, LoadCancel, LoadPaused, Wait, Nap
  <2>2. PICK from, to \in Places :
          Go(w, from, to) /\ {from, to} \cap {"announcing", "resuming"} = {}
    BY <1>2 DEF Arrive, LoadCancel, LoadPaused, Wait, Nap, Places
  <2>3. Pausing' = Pausing /\ Resuming' = Resuming BY <1>p, <2>2
  <2> QED BY <1>q, <2>1, <2>3
<1>3. ASSUME NEW w \in Worker, RaiseFlag(w)
      PROVE  Alternation'
  <2>1. CASE announced
    <3>1. Go(w, "pausing", "waiting") /\ announced' = announced /\ UNCHANGED events
      BY <1>3, <2>1 DEF RaiseFlag, GateTypeOK
    <3>2. Pausing' = Pausing /\ Resuming' = Resuming BY <1>p, <3>1 DEF Places
    <3> QED BY <1>q, <3>1, <3>2
  <2>2. CASE ~announced
    <3>1. Go(w, "pausing", "announcing") /\ announced' /\ UNCHANGED events
      BY <1>3, <2>2 DEF RaiseFlag
    <3>2. Pausing' = Pausing + 1 BY <3>1, OneMore DEF Pausing, Places
    <3>3. Resuming' = Resuming BY <3>1, Same DEF Resuming, Places
    <3> QED BY <1>n, <1>e, <2>2, <3>1, <3>2, <3>3 DEF Alternation, Pausing, Resuming, events
  <2> QED BY <2>1, <2>2
<1>4. ASSUME NEW w \in Worker, EmitPaused(w)
      PROVE  Alternation'
  <2>1. Go(w, "announcing", "waiting") /\ pausedEvents' = pausedEvents + 1
          /\ UNCHANGED <<announced, resumedEvents>>
    BY <1>4 DEF EmitPaused
  <2>2. Pausing' = Pausing - 1 BY <2>1, OneLess DEF Pausing, Places
  <2>3. Resuming' = Resuming BY <2>1, Same DEF Resuming, Places
  <2> QED BY <1>n, <1>e, <2>1, <2>2, <2>3 DEF Alternation, Pausing, Resuming
<1>5. ASSUME NEW w \in Worker, LowerFlag(w)
      PROVE  Alternation'
  <2>1. CASE announced
    <3>1. Go(w, "leaving", "resuming") /\ ~announced' /\ UNCHANGED events
      BY <1>5, <2>1 DEF LowerFlag
    <3>2. Resuming' = Resuming + 1 BY <3>1, OneMore DEF Resuming, Places
    <3>3. Pausing' = Pausing BY <3>1, Same DEF Pausing, Places
    <3> QED BY <1>n, <1>e, <2>1, <3>1, <3>2, <3>3 DEF Alternation, Pausing, Resuming, events
  <2>2. CASE ~announced
    <3>1. Go(w, "leaving", "working") /\ announced' = announced /\ UNCHANGED events
      BY <1>5, <2>2 DEF LowerFlag, GateTypeOK
    <3>2. Pausing' = Pausing /\ Resuming' = Resuming BY <1>p, <3>1 DEF Places
    <3> QED BY <1>q, <3>1, <3>2
  <2> QED BY <2>1, <2>2
<1>6. ASSUME NEW w \in Worker, EmitResumed(w)
      PROVE  Alternation'
  <2>1. Go(w, "resuming", "working") /\ resumedEvents' = resumedEvents + 1
          /\ UNCHANGED <<announced, pausedEvents>>
    BY <1>6 DEF EmitResumed
  <2>2. Resuming' = Resuming - 1 BY <2>1, OneLess DEF Resuming, Places
  <2>3. Pausing' = Pausing BY <2>1, Same DEF Pausing, Places
  <2> QED BY <1>n, <1>e, <2>1, <2>2, <2>3 DEF Alternation, Pausing, Resuming
<1> QED BY <1>1, <1>2, <1>3, <1>4, <1>5, <1>6 DEF GateNext, AtGate

-----------------------------------------------------------------------------
LEMMA WatchStays ==
  ASSUME GateTypeOK, FlagIsWatched, [GateNext]_gateVars
  PROVE  FlagIsWatched'
<1> DEFINE Watching == {"announcing", "waiting", "napping", "leaving"}
<1>1. CASE Pause \/ Resume \/ Cancel \/ UNCHANGED gateVars
  BY <1>1 DEF Pause, Resume, Cancel, gateVars, switches, FlagIsWatched
<1>2. ASSUME NEW w \in Worker, ~cancel', announced, UNCHANGED switches,
             place' = [place EXCEPT ![w] = place'[w]], place[w] \in Watching => place'[w] \in Watching
      PROVE  FlagIsWatched'
  BY <1>2 DEF FlagIsWatched, GateTypeOK, switches
<1>3. ASSUME NEW w \in Worker,
             Arrive(w) \/ LoadCancel(w) \/ LoadPaused(w) \/ EmitPaused(w) \/ Wait(w)
               \/ Nap(w) \/ EmitResumed(w)
      PROVE  FlagIsWatched'
  <2>1. announced' = announced /\ UNCHANGED switches
    BY <1>3 DEF Arrive, LoadCancel, LoadPaused, EmitPaused, Wait, Nap, EmitResumed
  <2>2. place' = [place EXCEPT ![w] = place'[w]]
    BY <1>3 DEF Arrive, LoadCancel, LoadPaused, EmitPaused, Wait, Nap, EmitResumed, Go, GateTypeOK
  <2>3. ~cancel => (place[w] \in Watching => place'[w] \in Watching)
    BY <1>3 DEF Arrive, LoadCancel, LoadPaused, EmitPaused, Wait, Nap, EmitResumed, Go, GateTypeOK
  <2> QED BY <1>2, <2>1, <2>2, <2>3 DEF FlagIsWatched, switches
<1>4. ASSUME NEW w \in Worker, RaiseFlag(w)
      PROVE  FlagIsWatched'
  BY <1>4 DEF RaiseFlag, Go, GateTypeOK, FlagIsWatched
<1>5. ASSUME NEW w \in Worker, LowerFlag(w)
      PROVE  FlagIsWatched'
  BY <1>5 DEF LowerFlag, FlagIsWatched
<1> QED BY <1>1, <1>3, <1>4, <1>5 DEF GateNext, AtGate

-----------------------------------------------------------------------------
LEMMA HeldStay ==
  ASSUME GateTypeOK, HeldIsInside, [GateNext]_gateVars
  PROVE  HeldIsInside'
<1>1. CASE Pause \/ Resume \/ Cancel \/ UNCHANGED gateVars
  BY <1>1 DEF Pause, Resume, Cancel, gateVars, switches, HeldIsInside
<1>2. ASSUME NEW w \in Worker, Arrive(w)
      PROVE  HeldIsInside'
  BY <1>2 DEF Arrive, Go, switches, HeldIsInside, GateTypeOK
<1>3. ASSUME NEW w \in Worker,
             LoadCancel(w) \/ LoadPaused(w) \/ RaiseFlag(w) \/ EmitPaused(w)
      PROVE  HeldIsInside'
  BY <1>3 DEF LoadCancel, LoadPaused, RaiseFlag, EmitPaused, Go, switches,
              HeldIsInside, GateTypeOK
<1>4. ASSUME NEW w \in Worker, Wait(w) \/ Nap(w) \/ LowerFlag(w) \/ EmitResumed(w)
      PROVE  HeldIsInside'
  BY <1>4 DEF Wait, Nap, LowerFlag, EmitResumed, Go, switches, HeldIsInside, GateTypeOK
<1> QED BY <1>1, <1>2, <1>3, <1>4 DEF GateNext, AtGate

LEMMA GateInductive == GateInv /\ [GateNext]_gateVars => GateInv'
BY GateTypesStay, AlternationStays, WatchStays, HeldStay DEF GateInv

\* No step lets a held worker out of the gate.
LEMMA GateHolds ==
  ASSUME GateInv, [GateNext]_gateVars, NEW v \in held, place[v] # "working"
  PROVE  place'[v] # "working"
<1> USE DEF GateInv, GateTypeOK, HeldIsInside
<1>1. CASE Pause \/ Resume \/ Cancel \/ UNCHANGED gateVars
  BY <1>1 DEF Pause, Resume, Cancel, gateVars
<1>2. ASSUME NEW w \in Worker,
             Arrive(w) \/ LoadCancel(w) \/ LoadPaused(w) \/ RaiseFlag(w) \/ EmitPaused(w)
      PROVE  place'[v] # "working"
  BY <1>2 DEF Arrive, LoadCancel, LoadPaused, RaiseFlag, EmitPaused, Go
<1>3. ASSUME NEW w \in Worker, Wait(w) \/ Nap(w) \/ LowerFlag(w) \/ EmitResumed(w)
      PROVE  place'[v] # "working"
  BY <1>3 DEF Wait, Nap, LowerFlag, EmitResumed, Go
<1> QED BY <1>1, <1>2, <1>3 DEF GateNext, AtGate

-----------------------------------------------------------------------------
\* The invariant answers the question: with everybody at work nobody is about to
\* report, and nobody is left to watch a raised flag.
LEMMA Balanced == GateInv => ReportsBalance
<1> SUFFICES ASSUME GateInv, \A w \in Worker : place[w] = "working", ~cancel
             PROVE  pausedEvents = resumedEvents /\ ~announced
  BY DEF ReportsBalance
<1>1. ~announced BY DEF GateInv, FlagIsWatched
<1>2. Standing("announcing") = {} /\ Standing("resuming") = {} BY DEF Standing
<1>3. pausedEvents = resumedEvents
  BY <1>1, <1>2, FS_EmptySet DEF GateInv, Alternation, GateTypeOK
<1> QED BY <1>1, <1>3

\* The types of the gate (RunCtx::checkpoint), for any number of workers.
THEOREM GateTypeCorrect == GateSpec => []GateTypeOK
<1>1. GateInv => GateTypeOK BY DEF GateInv
<1> QED BY GateInitially, GateInductive, <1>1, PTL DEF GateSpec

\* However many workers and pauses there are, a worker that reached a checkpoint in
\* a pause does not go on before that pause is over (RunCtx::checkpoint).
THEOREM NoWorkInPause == GateSpec => NoWorkWhilePaused
<1>1. GateInv /\ [GateNext]_gateVars =>
        [\A w \in held : place[w] # "working" => place'[w] # "working"]_gateVars
  BY GateHolds
<1> QED BY GateInitially, GateInductive, <1>1, PTL DEF GateSpec, NoWorkWhilePaused

\* For any number of workers and of pauses: once every worker is back at work in a
\* run nobody cancelled, each Paused report has had its Resumed report and the flag
\* is down, so that the next pause is reported too (progress.rs, the swaps of
\* pause_announced).
THEOREM ReportsAlwaysBalance == GateSpec => []ReportsBalance
BY GateInitially, GateInductive, Balanced, PTL DEF GateSpec

(* The watcher.                                                            *)

LEMMA SeqGrows == ASSUME NEW S, NEW T, S \subseteq T PROVE Seq(S) \subseteq Seq(T)
OBVIOUS

\* A cursor stays behind what its root has become.
CursorsUpto(v) == {c \in Cursors : c.upto <= v}
\* An event is no later than its root; the marker behind replayed history is none.
EventsUpto(v) == {e \in Events : e.at <= v /\ (e.kind = "done" => e.at = 0)}

LEMMA MovedByIs ==
  ASSUME NEW v \in Nat, NEW c \in CursorsUpto(v), NEW queue \in Seq(EventsUpto(v))
  PROVE  MovedBy(c, queue) \in CursorsUpto(v)
<1> DEFINE e == StandsAt(c, queue, Len(queue))
           many == Cardinality(Regressions(c, queue))
<1>1. many \in Nat
  <2>1. Regressions(c, queue) \in SUBSET (1..Len(queue)) BY DEF Regressions
  <2>2. IsFiniteSet(1..Len(queue)) BY FS_Interval
  <2> QED BY <2>1, <2>2, FS_Subset, FS_CardinalityType
<1>2. c.id \in Nat /\ c.upto \in Nat /\ c.resets \in Nat /\ c.uuid \in Nat /\ c.upto <= v
      /\ c = [uuid |-> c.uuid, resets |-> c.resets, id |-> c.id, upto |-> c.upto]
  BY DEF CursorsUpto, Cursors
<1>3. e.id \in Nat /\ e.at \in Nat /\ e.at <= v
  <2> DEFINE last == {k \in 1..Len(queue) : /\ Moves(queue[k])
                                            /\ \A i \in (k + 1)..Len(queue) : ~Moves(queue[i])}
  <2>1. e = IF last = {} THEN [id |-> c.id, at |-> c.upto] ELSE queue[CHOOSE k \in last : TRUE]
    BY DEF StandsAt
  <2>2. last # {} => (CHOOSE k \in last : TRUE) \in 1..Len(queue) OBVIOUS
  <2>3. last # {} => e \in EventsUpto(v)
    <3> HIDE DEF last
    <3> QED BY <2>1, <2>2
  <2> HIDE DEF last
  <2> QED BY <2>1, <2>3, <1>2 DEF EventsUpto, Events
<1>4. MovedBy(c, queue) = [uuid |-> c.uuid, resets |-> c.resets + many, id |-> e.id, upto |-> e.at]
  <2>1. MovedBy(c, queue) = [c EXCEPT !.resets = @ + many, !.id = e.id, !.upto = e.at] BY DEF MovedBy
  <2> HIDE DEF e, many
  <2> QED BY <1>2, <2>1
<1> HIDE DEF e, many
<1> QED BY <1>1, <1>2, <1>3, <1>4 DEF CursorsUpto, Cursors

Ages == {"off", "running", "over"}
Triggers ==
  [boot : BOOLEAN, observed : {None} \cup Positions, paths : SUBSET (Streams \X Nat),
   full : Reasons \cup {None}, debounce : Ages, active : {None} \cup Tickets, next : TicketIds]
Completions == {"published", "terminated"} \X TicketIds

\* A position behind the roots; a batch that says something.
Behind == {p \in Positions : \A s \in Streams : p[s].upto <= version[s]}
Telling == {b \in Batches : b.through \in Behind /\ (b.paths # {} \/ b.invalid)}

WorldIs ==
  /\ version \in [Streams -> Nat] /\ verified \in [Streams -> Nat]
  /\ journal \in [Streams -> [uuid : Nat, last : Nat, base : Nat]]
  /\ \A s \in Streams : verified[s] <= version[s] /\ journal[s].base + journal[s].last <= version[s]

PipeIs ==
  /\ DOMAIN undelivered = Streams /\ undelivered = [s \in Streams |-> undelivered[s]]
  /\ \A s \in Streams : undelivered[s] \in Seq(EventsUpto(version[s]))
  /\ channel \in Seq({Broken} \cup Telling)
  /\ cursor \in {None} \cup Positions
  /\ Listening => cursor \in Behind

TriggerIs ==
  /\ trigger \in Triggers
  /\ Listening => trigger.observed \in Behind
  /\ Listening /\ trigger.active # None =>
       trigger.active.through \in Behind /\ (trigger.active.full = None => trigger.active.paths # {})
  /\ ~Listening => trigger = NoTrigger

DeskIs ==
  /\ work \in {None} \cup Works /\ commands \in Seq(Completions)
  /\ Len(commands) <= 1 /\ (work # None => commands = <<>>)
  /\ work # None /\ work.sees # None => \A s \in Streams : work.sees[s] <= version[s]

\* What runs, or has come back, is the ticket in hand; it reads, or has verified, all that
\* the ticket's cursor stands for.
TicketIsInHand ==
  /\ work # None => /\ trigger.active # None /\ trigger.active.id = work.id
                    /\ work.sees # None =>
                         \A s \in Streams : trigger.active.through[s].upto <= work.sees[s]
  /\ commands # <<>> =>
       /\ trigger.active # None /\ trigger.active.id = commands[1][2]
       /\ commands[1][1] = "published" =>
            \A s \in Streams : trigger.active.through[s].upto <= verified[s]

SavedIs == saved \in {Missing, Spoiled} \cup Positions /\ CheckpointIsEarned

\* Where the latest change of a root is while no compare has verified it.
OnItsWay(s) ==
  \/ \E i \in DOMAIN undelivered[s] : undelivered[s][i].at = version[s]
  \/ channel # <<>> \/ Latched(trigger)
  \/ work # None /\ (work.sees = None \/ work.sees[s] = version[s])
  \/ commands # <<>> /\ commands[1][1] = "terminated"
AllOnTheirWay == \A s \in Streams : version[s] > verified[s] => OnItsWay(s)

WatchInv ==
  /\ WorldIs /\ PipeIs /\ TriggerIs /\ DeskIs /\ SavedIs
  /\ Listening => TicketIsInHand /\ AllOnTheirWay
  /\ stage \in Stages /\ due \in BOOLEAN /\ resting \in BOOLEAN

-----------------------------------------------------------------------------
LEMMA NoTriggerIs == NoTrigger \in Triggers
BY DEF NoTrigger, Triggers, Ages, TicketIds

LEMMA WatchInitially == WatchInit => WatchInv
<1> SUFFICES ASSUME WatchInit PROVE WatchInv OBVIOUS
<1>1. WorldIs BY DEF WatchInit, WorldIs
<1>2. PipeIs BY DEF WatchInit, PipeIs, Listening
<1>3. TriggerIs BY NoTriggerIs DEF WatchInit, TriggerIs, Listening
<1>4. DeskIs BY DEF WatchInit, DeskIs
<1>5. SavedIs BY DEF WatchInit, SavedIs, CheckpointIsEarned
<1> QED BY <1>1, <1>2, <1>3, <1>4, <1>5 DEF WatchInit, WatchInv, Listening, Stages

\* What the steps that leave a part alone keep of it.
LEMMA PartsKept ==
  ASSUME WatchInv, UNCHANGED version, Listening' = Listening
  PROVE  /\ UNCHANGED <<verified, journal>> => WorldIs'
         /\ UNCHANGED <<undelivered, channel, cursor>> => PipeIs'
         /\ UNCHANGED trigger => TriggerIs'
         /\ UNCHANGED <<work, commands>> => DeskIs'
         /\ UNCHANGED <<saved, verified>> => SavedIs'
         /\ Listening /\ trigger'.active = trigger.active /\ UNCHANGED <<work, commands, verified>> =>
              TicketIsInHand'
<1>1. UNCHANGED <<verified, journal>> => WorldIs' BY DEF WatchInv, WorldIs
<1>2. UNCHANGED <<undelivered, channel, cursor>> => PipeIs' BY DEF WatchInv, PipeIs, Behind, Telling
<1>3. UNCHANGED trigger => TriggerIs' BY DEF WatchInv, TriggerIs, Behind
<1>4. UNCHANGED <<work, commands>> => DeskIs' BY DEF WatchInv, DeskIs
<1>5. UNCHANGED <<saved, verified>> => SavedIs' BY DEF WatchInv, SavedIs, CheckpointIsEarned
<1>6. Listening /\ trigger'.active = trigger.active /\ UNCHANGED <<work, commands, verified>> =>
        TicketIsInHand'
  BY DEF WatchInv, TicketIsInHand
<1> QED BY <1>1, <1>2, <1>3, <1>4, <1>5, <1>6

LEMMA StillOnTheirWay ==
  ASSUME WatchInv, Listening, UNCHANGED <<version, undelivered, work, commands, verified>>,
         Latched(trigger) => Latched(trigger'),
         channel # <<>> => channel' # <<>> \/ Latched(trigger')
  PROVE  AllOnTheirWay'
<1>1. SUFFICES ASSUME NEW s \in Streams, version[s] > verified[s] PROVE OnItsWay(s)'
  BY DEF AllOnTheirWay
<1>2. OnItsWay(s) BY <1>1 DEF WatchInv, AllOnTheirWay
<1> QED BY <1>2 DEF OnItsWay

-----------------------------------------------------------------------------
(* The trigger *)

LEMMA NoneIsNone == None \notin Reasons /\ None \notin Tickets /\ None \notin Works
BY WatchAssumption

LEMMA TriggerIsRecord ==
  ASSUME NEW t \in Triggers
  PROVE  /\ t = [boot |-> t.boot, observed |-> t.observed, paths |-> t.paths, full |-> t.full,
                 debounce |-> t.debounce, active |-> t.active, next |-> t.next]
         /\ t.boot \in BOOLEAN /\ t.observed \in {None} \cup Positions
         /\ t.paths \subseteq Streams \X Nat /\ t.full \in Reasons \cup {None}
         /\ t.debounce \in Ages /\ t.active \in {None} \cup Tickets /\ t.next \in TicketIds
BY DEF Triggers

LEMMA TriggerObserves ==
  ASSUME NEW t \in Triggers, NEW b \in Batches
  PROVE  /\ Observed(t, b) \in Triggers /\ Observed(t, b).observed = b.through
         /\ Observed(t, b).active = t.active
         /\ Latched(t) \/ b.paths # {} \/ b.invalid => Latched(Observed(t, b))
<1> DEFINE all == t.paths \cup b.paths
           base == [t EXCEPT !.observed = b.through]
           again == [base EXCEPT !.debounce = "running"]
<1>1. b.through \in Positions /\ b.paths \subseteq Streams \X Nat /\ b.invalid \in BOOLEAN
  BY DEF Batches
<1>2. /\ "running" \in Ages /\ "invalid" \in Reasons /\ "too large" \in Reasons
      /\ "invalid" # None /\ "too large" # None
  BY NoneIsNone DEF Ages, Reasons
<1>3. /\ base \in Triggers /\ base.observed = b.through /\ base.active = t.active
      /\ base.boot = t.boot /\ base.full = t.full /\ base.paths = t.paths
  BY <1>1, TriggerIsRecord DEF Triggers
<1>4. /\ again \in Triggers /\ again.observed = b.through /\ again.active = t.active
      /\ again.boot = t.boot /\ again.full = t.full /\ again.paths = t.paths
  BY <1>2, <1>3, TriggerIsRecord DEF Triggers
<1>5. \/ Observed(t, b) = [again EXCEPT !.paths = {}, !.full = "invalid"]
      \/ b.paths = {} /\ ~b.invalid /\ Observed(t, b) = base
      \/ t.full # None /\ Observed(t, b) = again
      \/ Observed(t, b) = [again EXCEPT !.paths = {}, !.full = "too large"]
      \/ b.paths # {} /\ Observed(t, b) = [again EXCEPT !.paths = all]
  BY <1>1 DEF Observed
<1>6. CASE Observed(t, b) = [again EXCEPT !.paths = {}, !.full = "invalid"]
  <2> HIDE DEF again, base, all
  <2> QED BY <1>2, <1>4, <1>6 DEF Triggers, Latched
<1>7. CASE b.paths = {} /\ ~b.invalid /\ Observed(t, b) = base
  <2> HIDE DEF again, base, all
  <2> QED BY <1>3, <1>7 DEF Latched
<1>8. CASE t.full # None /\ Observed(t, b) = again
  <2> HIDE DEF again, base, all
  <2> QED BY <1>4, <1>8 DEF Latched
<1>9. CASE Observed(t, b) = [again EXCEPT !.paths = {}, !.full = "too large"]
  <2> HIDE DEF again, base, all
  <2> QED BY <1>2, <1>4, <1>9 DEF Triggers, Latched
<1>10. CASE b.paths # {} /\ Observed(t, b) = [again EXCEPT !.paths = all]
  <2>1. all \subseteq Streams \X Nat /\ (b.paths # {} => all # {}) BY <1>1, TriggerIsRecord
  <2> HIDE DEF again, base, all
  <2> QED BY <1>4, <1>10, <2>1 DEF Triggers, Latched
<1> HIDE DEF again, base, all
<1> QED BY <1>5, <1>6, <1>7, <1>8, <1>9, <1>10

LEMMA TriggerAsksPeriodically ==
  ASSUME NEW t \in Triggers, NEW p \in Positions
  PROVE  /\ Periodically(t, p) \in Triggers /\ Periodically(t, p).observed = p
         /\ Periodically(t, p).active = t.active /\ Latched(Periodically(t, p))
<1>1. PICK why \in Reasons : Periodically(t, p) = [t EXCEPT !.full = why, !.observed = p, !.debounce = "over"]
  BY TriggerIsRecord DEF Periodically, Reasons
<1>2. Periodically(t, p) = [boot |-> t.boot, observed |-> p, paths |-> t.paths, full |-> why,
                            debounce |-> "over", active |-> t.active, next |-> t.next]
  BY <1>1, TriggerIsRecord
<1>3. why # None BY NoneIsNone
<1> QED BY <1>2, <1>3, TriggerIsRecord DEF Triggers, Ages, Latched

LEMMA TriggerTakes ==
  ASSUME NEW t \in Triggers, Latched(t), t.observed \in Positions
  PROVE  /\ Taken(t) \in Triggers /\ Taken(t).active \in Tickets /\ Taken(t).active.id = t.next
         /\ Taken(t).observed = t.observed /\ Taken(t).active.through = t.observed
         /\ Taken(t).active.full = None => Taken(t).active.paths # {}
<1>1. t.next \in {1, 2} /\ 3 - t.next \in TicketIds BY TriggerIsRecord DEF TicketIds
<1>2. /\ TicketOf(t) \in Tickets /\ TicketOf(t).id = t.next /\ TicketOf(t).through = t.observed
  <2>1. /\ TicketOf(t).full \in Reasons \cup {None} /\ TicketOf(t).paths \subseteq Streams \X Nat
    BY TriggerIsRecord DEF TicketOf, Reasons
  <2> QED BY <2>1, TriggerIsRecord DEF TicketOf, Tickets
<1>3. TicketOf(t).full = None => TicketOf(t).paths # {}
  <2>1. "bootstrap" # None /\ "policy" # None BY NoneIsNone DEF Reasons
  <2> QED BY <2>1, TriggerIsRecord DEF TicketOf, Latched
<1> DEFINE ticket == TicketOf(t)
           other == 3 - t.next
<1>4. Taken(t) = [t EXCEPT !.active = ticket, !.next = other, !.boot = FALSE, !.full = None,
                           !.paths = {}, !.debounce = "off"]
  BY DEF Taken
<1>5. ticket \in Tickets /\ other \in TicketIds BY <1>1, <1>2
<1>6. Taken(t) \in Triggers /\ Taken(t).active = ticket /\ Taken(t).observed = t.observed
  <2> HIDE DEF ticket, other
  <2> QED BY <1>4, <1>5 DEF Triggers, Ages
<1> QED BY <1>2, <1>3, <1>6

LEMMA TriggerRequeues ==
  ASSUME NEW t \in Triggers, t.active \in Tickets, t.active.full = None => t.active.paths # {}
  PROVE  /\ Requeued(t) \in Triggers /\ Requeued(t).active = None
         /\ Requeued(t).observed = t.observed /\ Latched(Requeued(t))
<1>1. t.active.full \in Reasons \cup {None} /\ t.active.paths \subseteq Streams \X Nat
  BY DEF Tickets
<1> DEFINE why == IF t.full = None THEN t.active.full ELSE t.full
           which == IF t.full = None /\ t.active.full = None THEN t.paths \cup t.active.paths
                    ELSE t.paths
           when == IF t.debounce = "off" THEN "over" ELSE t.debounce
<1>2. Requeued(t) = [boot |-> t.boot, observed |-> t.observed, paths |-> which, full |-> why,
                     debounce |-> when, active |-> None, next |-> t.next]
  <2>1. Requeued(t) = [t EXCEPT !.active = None, !.full = why, !.paths = which, !.debounce = when]
    BY DEF Requeued
  <2> HIDE DEF why, which, when
  <2> QED BY <2>1, TriggerIsRecord
<1>3. /\ why \in Reasons \cup {None} /\ which \subseteq Streams \X Nat /\ when \in Ages
      /\ why # None \/ which # {}
  BY <1>1, TriggerIsRecord DEF Ages
<1> HIDE DEF why, which, when
<1> QED BY <1>2, <1>3, TriggerIsRecord DEF Triggers, Latched

-----------------------------------------------------------------------------
(* The world and the callback *)

LEMMA Cut ==
  ASSUME NEW S, NEW q \in Seq(S), NEW n \in 1..Len(q)
  PROVE  /\ SubSeq(q, 1, n) \in Seq(S) /\ Len(SubSeq(q, 1, n)) = n
         /\ \A i \in 1..n : SubSeq(q, 1, n)[i] = q[i]
         /\ SubSeq(q, n + 1, Len(q)) \in Seq(S) /\ Len(SubSeq(q, n + 1, Len(q))) = Len(q) - n
         /\ \A i \in 1..(Len(q) - n) : SubSeq(q, n + 1, Len(q))[i] = q[n + i]
OBVIOUS

LEMMA ChangeKeeps == ASSUME WatchInv, NEW s \in Streams, Change(s) PROVE WatchInv'
<1>1. /\ version' = [version EXCEPT ![s] = @ + 1] /\ journal' = [journal EXCEPT ![s].last = @ + 1]
      /\ UNCHANGED <<verified, cursor, channel, trigger, saved, work, commands, stage, due, resting>>
  BY DEF Change
<1>w. WorldIs /\ PipeIs /\ TriggerIs /\ DeskIs /\ SavedIs BY DEF WatchInv
<1>2. /\ version' \in [Streams -> Nat] /\ version'[s] = version[s] + 1 /\ version[s] \in Nat
      /\ \A r \in Streams : version[r] <= version'[r] /\ (r # s => version'[r] = version[r])
  BY <1>1, <1>w DEF WorldIs
<1>3. WorldIs'
  <2>1. journal' \in [Streams -> [uuid : Nat, last : Nat, base : Nat]]
        /\ \A r \in Streams : journal'[r].base + journal'[r].last <= version'[r]
    BY <1>1, <1>2, <1>w DEF WorldIs
  <2> QED BY <1>1, <1>2, <1>w, <2>1 DEF WorldIs
<1>4. Behind \subseteq Behind' /\ Telling \subseteq Telling'
  <2>1. \A p \in Behind : p \in Behind'
    <3> SUFFICES ASSUME NEW p \in Behind PROVE \A r \in Streams : p[r].upto <= version'[r]
      BY DEF Behind
    <3>1. \A r \in Streams : p[r].upto <= version[r] /\ p[r].upto \in Nat
      BY DEF Behind, Positions, Cursors
    <3> QED BY <3>1, <1>2, <1>w DEF WorldIs
  <2> QED BY <2>1 DEF Telling
<1>5. PipeIs'
  <2>1. \A r \in Streams : EventsUpto(version[r]) \subseteq EventsUpto(version'[r])
    BY <1>2, <1>w DEF EventsUpto, Events, WorldIs
  <2>2. \A r \in Streams : undelivered[r] \in Seq(EventsUpto(version'[r]))
    BY <2>1, <1>w, SeqGrows DEF PipeIs
  <2>3. channel \in Seq({Broken} \cup Telling') BY <1>4, <1>w, SeqGrows DEF PipeIs
  <2> DEFINE Fits == /\ DOMAIN undelivered' = Streams /\ undelivered' = [r \in Streams |-> undelivered'[r]]
                     /\ \A r \in Streams : undelivered'[r] \in Seq(EventsUpto(version'[r]))
  <2>4. Fits
    <3>1. CASE undelivered' = undelivered BY <2>2, <3>1, <1>w DEF PipeIs
    <3>2. ASSUME NEW kind \in {"inside", "elsewhere"}, NEW e,
                 e = [id |-> journal[s].last + 1, at |-> version[s] + 1, kind |-> kind, wrapped |-> FALSE],
                 undelivered' = [undelivered EXCEPT ![s] = Append(@, e)]
          PROVE  Fits
      <4>1. e \in EventsUpto(version'[s]) BY <3>2, <1>2, <1>w DEF EventsUpto, Events, Kinds, WorldIs
      <4>2. Append(undelivered[s], e) \in Seq(EventsUpto(version'[s])) BY <4>1, <2>2
      <4> QED BY <2>2, <3>2, <4>2, <1>w DEF PipeIs
    <3>3. \/ undelivered' = undelivered
          \/ \E kind \in {"inside", "elsewhere"} : undelivered' = [undelivered EXCEPT ![s] =
               Append(@, [id |-> journal[s].last + 1, at |-> version[s] + 1, kind |-> kind, wrapped |-> FALSE])]
      BY DEF Change
    <3> QED BY <3>1, <3>2, <3>3
  <2> QED BY <1>1, <1>4, <1>w, <2>3, <2>4 DEF PipeIs, Listening
<1>6. TriggerIs' BY <1>1, <1>4, <1>w DEF TriggerIs, Listening
<1>7. DeskIs'
  <2>1. work # None /\ work.sees # None => \A r \in Streams : work.sees[r] <= version'[r]
    <3> SUFFICES ASSUME work # None, work.sees # None, NEW r \in Streams PROVE work.sees[r] <= version'[r]
      OBVIOUS
    <3>1. work.sees[r] <= version[r] /\ work.sees[r] \in Nat BY <1>w DEF DeskIs, Works
    <3> QED BY <3>1, <1>2, <1>w DEF WorldIs
  <2> QED BY <1>1, <1>w, <2>1 DEF DeskIs
<1>8. SavedIs' BY <1>1, <1>w DEF SavedIs, CheckpointIsEarned
<1>9. ASSUME Listening PROVE TicketIsInHand' /\ AllOnTheirWay'
  <2>1. TicketIsInHand' BY <1>1, <1>9 DEF WatchInv, TicketIsInHand
  <2>2. PICK e : /\ e.at = version[s] + 1
                 /\ undelivered' = [undelivered EXCEPT ![s] = Append(@, e)]
    BY <1>9 DEF Change
  <2>3. ASSUME NEW r \in Streams, version'[r] > verified'[r] PROVE OnItsWay(r)'
    <3>1. CASE r = s
      <4>1. Append(undelivered[s], e)[Len(undelivered[s]) + 1] = e
            /\ Len(undelivered[s]) + 1 \in DOMAIN Append(undelivered[s], e)
        BY <1>w DEF PipeIs
      <4>2. undelivered'[s] = Append(undelivered[s], e) BY <2>2, <1>w DEF PipeIs
      <4> QED BY <2>2, <3>1, <4>1, <4>2, <1>2 DEF OnItsWay
    <3>2. CASE r # s
      <4>1. undelivered'[r] = undelivered[r] /\ version'[r] = version[r] BY <2>2, <3>2, <1>2, <1>w DEF PipeIs
      <4>2. OnItsWay(r) BY <1>1, <1>9, <2>3, <4>1 DEF WatchInv, AllOnTheirWay
      <4> QED BY <1>1, <4>1, <4>2 DEF OnItsWay
    <3> QED BY <3>1, <3>2
  <2> QED BY <2>1, <2>3 DEF AllOnTheirWay
<1> QED BY <1>1, <1>3, <1>5, <1>6, <1>7, <1>8, <1>9 DEF WatchInv, Listening

\* A journal that starts again stands for what the root is by then.
LEMMA JournalKeeps ==
  ASSUME WatchInv, NEW s \in Streams, Wrap(s) \/ ReplaceJournal(s)
  PROVE  WatchInv'
<1>w. WorldIs /\ PipeIs BY DEF WatchInv
<1>1. /\ UNCHANGED <<version, verified, cursor, channel, trigger, saved, work, commands, stage, due, resting>>
      /\ Listening' = Listening
  BY DEF Wrap, ReplaceJournal, Listening
<1>2. WorldIs'
  <2>1. PICK j \in [uuid : Nat, last : Nat, base : Nat] :
           journal' = [journal EXCEPT ![s] = j] /\ j.last = 0 /\ j.base = version[s]
    <3>1. CASE Wrap(s)
      <4> DEFINE j == [journal[s] EXCEPT !.last = 0, !.base = version[s]]
      <4>1. journal' = [journal EXCEPT ![s] = j] BY <3>1 DEF Wrap
      <4>2. journal[s] \in [uuid : Nat, last : Nat, base : Nat] /\ version[s] \in Nat
        BY <1>w DEF WorldIs
      <4>3. j \in [uuid : Nat, last : Nat, base : Nat] /\ j.last = 0 /\ j.base = version[s] BY <4>2
      <4> HIDE DEF j
      <4> QED BY <4>1, <4>3
    <3>2. CASE ReplaceJournal(s)
      <4> DEFINE j == [uuid |-> journal[s].uuid + 1, last |-> 0, base |-> version[s]]
      <4>1. journal[s].uuid + 1 \in Nat /\ version[s] \in Nat BY <1>w DEF WorldIs
      <4>2. j \in [uuid : Nat, last : Nat, base : Nat] /\ j.last = 0 /\ j.base = version[s] BY <4>1
      <4>3. journal' = [journal EXCEPT ![s] = j] BY <3>2 DEF ReplaceJournal
      <4> HIDE DEF j
      <4> QED BY <4>2, <4>3
    <3> QED BY <3>1, <3>2
  <2> QED BY <1>1, <1>w, <2>1 DEF WorldIs
<1>3. undelivered' = undelivered \/
      \E e \in EventsUpto(version[s]) : undelivered' = [undelivered EXCEPT ![s] = Append(@, e)]
  <2>1. [id |-> 0, at |-> version[s], kind |-> "elsewhere", wrapped |-> TRUE] \in EventsUpto(version[s])
    BY <1>w DEF WorldIs, EventsUpto, Events, Kinds
  <2> QED BY <2>1 DEF Wrap, ReplaceJournal
<1>4. PipeIs'
  <2>1. CASE undelivered' = undelivered BY <1>1, <2>1, PartsKept
  <2>2. ASSUME NEW e \in EventsUpto(version[s]), undelivered' = [undelivered EXCEPT ![s] = Append(@, e)]
        PROVE  PipeIs'
    <3>1. Append(undelivered[s], e) \in Seq(EventsUpto(version[s])) BY <1>w DEF PipeIs
    <3>2. DOMAIN undelivered = Streams /\ undelivered = [r \in Streams |-> undelivered[r]]
      BY <1>w DEF PipeIs
    <3>3. /\ DOMAIN undelivered' = Streams /\ undelivered' = [r \in Streams |-> undelivered'[r]]
          /\ \A r \in Streams : undelivered'[r] = IF r = s THEN Append(undelivered[s], e) ELSE undelivered[r]
      BY <2>2, <3>2
    <3> QED BY <1>1, <1>w, <3>1, <3>3 DEF PipeIs, Behind, Telling
  <2> QED BY <1>3, <2>1, <2>2
<1>5. ASSUME Listening PROVE AllOnTheirWay'
  <2>1. ASSUME NEW r \in Streams, version[r] > verified[r] PROVE OnItsWay(r)'
    <3>1. OnItsWay(r) BY <1>5, <2>1 DEF WatchInv, AllOnTheirWay
    <3>2. \A i \in DOMAIN undelivered[r] : i \in DOMAIN undelivered'[r] /\ undelivered'[r][i] = undelivered[r][i]
      <4>1. CASE undelivered' = undelivered BY <4>1
      <4>2. ASSUME NEW e, undelivered' = [undelivered EXCEPT ![s] = Append(@, e)],
                   NEW i \in DOMAIN undelivered[r]
            PROVE  i \in DOMAIN undelivered'[r] /\ undelivered'[r][i] = undelivered[r][i]
        <5>1. undelivered'[r] = IF r = s THEN Append(undelivered[s], e) ELSE undelivered[r]
          BY <4>2, <1>w DEF PipeIs
        <5>2. undelivered[r] \in Seq(EventsUpto(version[r])) BY <1>w DEF PipeIs
        <5> QED BY <5>1, <5>2
      <4> QED BY <1>3, <4>1, <4>2
    <3> QED BY <1>1, <3>1, <3>2 DEF OnItsWay
  <2> QED BY <1>1, <2>1 DEF AllOnTheirWay
<1> QED BY <1>1, <1>2, <1>4, <1>5, PartsKept DEF WatchInv

\* The callback sends word of every event that is more than the end of replayed history.
LEMMA CallBackTells ==
  ASSUME WatchInv, Listening, NEW s \in Streams, NEW ev \in Seq(EventsUpto(version[s])), CallBack(s, ev)
  PROVE  /\ cursor' \in Behind /\ channel' \in Seq({Broken} \cup Telling)
         /\ channel # <<>> => channel' # <<>>
         /\ (\E i \in DOMAIN ev : ev[i].kind # "done") => channel' # <<>>
<1> DEFINE c == [cursor EXCEPT ![s] = MovedBy(@, ev)]
           batch == [through |-> c, paths |-> Hints(s, ev), invalid |-> Untrusted(s, ev)]
<1>w. WorldIs /\ PipeIs BY DEF WatchInv
<1>v. version[s] \in Nat BY <1>w DEF WorldIs
<1>1. cursor' = c /\ channel' = IF batch.paths = {} /\ ~batch.invalid THEN channel ELSE Append(channel, batch)
  BY DEF CallBack
<1>2. c \in Behind
  <2>1. cursor \in Behind BY <1>w DEF PipeIs
  <2>2. cursor[s] \in CursorsUpto(version[s]) BY <2>1 DEF Behind, Positions, CursorsUpto
  <2>3. MovedBy(cursor[s], ev) \in CursorsUpto(version[s]) BY <2>2, <1>v, MovedByIs
  <2> QED BY <2>1, <2>3 DEF Behind, Positions, CursorsUpto
<1>3. Hints(s, ev) \subseteq Streams \X Nat
  <2>1. \A i \in DOMAIN ev : ev[i].at \in Nat BY DEF EventsUpto, Events
  <2> QED BY <2>1 DEF Hints
<1>4. Untrusted(s, ev) \in BOOLEAN BY DEF Untrusted
<1>5. batch \in Batches BY <1>2, <1>3, <1>4 DEF Batches, Behind
<1>6. batch.paths # {} \/ batch.invalid => batch \in Telling BY <1>2, <1>5 DEF Telling
<1>7. channel' \in Seq({Broken} \cup Telling) /\ (channel # <<>> => channel' # <<>>)
      /\ (batch.paths # {} \/ batch.invalid => channel' # <<>>)
  <2>1. channel \in Seq({Broken} \cup Telling) BY <1>w DEF PipeIs
  <2> HIDE DEF batch, c
  <2> QED BY <1>1, <1>6, <2>1
<1>8. ASSUME NEW i \in DOMAIN ev, ev[i].kind # "done" PROVE batch.paths # {} \/ batch.invalid
  <2>1. CASE ev[i].kind = "inside"
    <3>1. <<s, ev[i].at>> \in Hints(s, ev) BY <1>8, <2>1 DEF Hints
    <3> QED BY <3>1
  <2>2. CASE ev[i].kind # "inside"
    <3>1. Untrusted(s, ev) BY <1>8, <2>2 DEF Untrusted
    <3> QED BY <3>1
  <2> QED BY <2>1, <2>2
<1> HIDE DEF batch, c
<1> QED BY <1>1, <1>2, <1>7, <1>8

\* A callback, whole, dropped or failed.
LEMMA DeliveryKeeps ==
  ASSUME WatchInv, NEW s \in Streams, Deliver(s) \/ DeliverDropped(s) \/ DeliverError(s)
  PROVE  WatchInv'
<1>w. WorldIs /\ PipeIs /\ TriggerIs /\ DeskIs /\ SavedIs BY DEF WatchInv
<1>1. /\ Listening /\ UNCHANGED <<version, journal, verified, work, commands, trigger, saved, stage, due, resting>>
      /\ Listening' = Listening
  BY DEF Deliver, DeliverDropped, DeliverError, Listening, worldVars, deskVars
<1>q. undelivered[s] \in Seq(EventsUpto(version[s])) /\ undelivered = [r \in Streams |-> undelivered[r]]
  BY <1>w DEF PipeIs
<1> DEFINE Left == /\ DOMAIN undelivered' = Streams /\ undelivered' = [r \in Streams |-> undelivered'[r]]
                   /\ \A r \in Streams : r # s => undelivered'[r] = undelivered[r]
                   /\ undelivered'[s] \in Seq(EventsUpto(version[s]))
                   /\ cursor' \in Behind /\ channel' \in Seq({Broken} \cup Telling)
                   /\ channel # <<>> => channel' # <<>>
                   /\ \A i \in DOMAIN undelivered[s] : undelivered[s][i].at > 0 =>
                        \/ channel' # <<>>
                        \/ \E j \in DOMAIN undelivered'[s] : undelivered'[s][j] = undelivered[s][i]
<1>2. ASSUME Deliver(s) PROVE Left
  <2>1. PICK n \in 1..Len(undelivered[s]) :
           /\ CallBack(s, SubSeq(undelivered[s], 1, n))
           /\ undelivered' = [undelivered EXCEPT ![s] = SubSeq(@, n + 1, Len(@))]
    BY <1>2 DEF Deliver
  <2> DEFINE ev == SubSeq(undelivered[s], 1, n)
  <2>2. /\ ev \in Seq(EventsUpto(version[s])) /\ Len(ev) = n /\ \A i \in 1..n : ev[i] = undelivered[s][i]
        /\ SubSeq(undelivered[s], n + 1, Len(undelivered[s])) \in Seq(EventsUpto(version[s]))
        /\ Len(SubSeq(undelivered[s], n + 1, Len(undelivered[s]))) = Len(undelivered[s]) - n
        /\ \A i \in 1..(Len(undelivered[s]) - n) :
             SubSeq(undelivered[s], n + 1, Len(undelivered[s]))[i] = undelivered[s][n + i]
    BY <1>q, Cut
  <2>3. /\ cursor' \in Behind /\ channel' \in Seq({Broken} \cup Telling)
        /\ channel # <<>> => channel' # <<>>
        /\ (\E i \in DOMAIN ev : ev[i].kind # "done") => channel' # <<>>
    BY <1>1, <2>1, <2>2, CallBackTells
  <2>4. /\ undelivered'[s] = SubSeq(undelivered[s], n + 1, Len(undelivered[s]))
        /\ DOMAIN undelivered' = Streams /\ undelivered' = [r \in Streams |-> undelivered'[r]]
        /\ \A r \in Streams : r # s => undelivered'[r] = undelivered[r]
    BY <2>1, <1>q
  <2>5. ASSUME NEW i \in DOMAIN undelivered[s], undelivered[s][i].at > 0
        PROVE  \/ channel' # <<>>
               \/ \E j \in DOMAIN undelivered'[s] : undelivered'[s][j] = undelivered[s][i]
    <3>1. undelivered[s][i].kind # "done" BY <1>q, <2>5 DEF EventsUpto, Events
    <3>2. CASE i <= n
      <4>1. i \in DOMAIN ev /\ ev[i] = undelivered[s][i]
        <5> HIDE DEF ev
        <5> QED BY <1>q, <2>2, <3>2
      <4> QED BY <4>1, <3>1, <2>3
    <3>3. CASE i > n
      <4> DEFINE rest == SubSeq(undelivered[s], n + 1, Len(undelivered[s]))
      <4>1. /\ i - n \in 1..(Len(undelivered[s]) - n) /\ n + (i - n) = i BY <3>3, <1>q
      <4>2. i - n \in DOMAIN rest /\ rest[i - n] = undelivered[s][i]
        <5> HIDE DEF rest
        <5>1. rest \in Seq(EventsUpto(version[s])) /\ Len(rest) = Len(undelivered[s]) - n
              /\ rest[i - n] = undelivered[s][n + (i - n)]
          BY <2>2, <4>1 DEF rest
        <5> QED BY <4>1, <5>1
      <4> QED BY <2>4, <4>2
    <3> QED BY <3>2, <3>3, <1>q
  <2> QED BY <2>2, <2>3, <2>4, <2>5
<1>3. ASSUME DeliverDropped(s) PROVE Left
  <2> DEFINE last == undelivered[s][Len(undelivered[s])]
             ev == <<[last EXCEPT !.kind = "elsewhere"]>>
  <2>1. undelivered[s] # <<>> /\ CallBack(s, ev) /\ undelivered' = [undelivered EXCEPT ![s] = <<>>]
    BY <1>3 DEF DeliverDropped
  <2>2. last \in EventsUpto(version[s]) BY <1>q, <2>1
  <2>3. [last EXCEPT !.kind = "elsewhere"] \in EventsUpto(version[s])
        /\ [last EXCEPT !.kind = "elsewhere"].kind = "elsewhere"
    <3> HIDE DEF last
    <3> QED BY <2>2 DEF EventsUpto, Events, Kinds
  <2>4. ev \in Seq(EventsUpto(version[s])) /\ 1 \in DOMAIN ev /\ ev[1].kind # "done"
    <3> DEFINE e == [last EXCEPT !.kind = "elsewhere"]
    <3>1. e \in EventsUpto(version[s]) /\ e.kind # "done" BY <2>3
    <3>2. ev = <<e>> OBVIOUS
    <3>3. <<e>> \in Seq(EventsUpto(version[s])) /\ DOMAIN <<e>> = {1} /\ <<e>>[1] = e
      <4> HIDE DEF e, ev
      <4> QED BY <3>1
    <3> HIDE DEF e, ev
    <3> QED BY <3>1, <3>2, <3>3
  <2>5. cursor' \in Behind /\ channel' \in Seq({Broken} \cup Telling) /\ channel' # <<>>
    <3> HIDE DEF ev
    <3> QED BY <1>1, <2>1, <2>4, CallBackTells
  <2>6. /\ undelivered'[s] = <<>> /\ DOMAIN undelivered' = Streams
        /\ undelivered' = [r \in Streams |-> undelivered'[r]]
        /\ \A r \in Streams : r # s => undelivered'[r] = undelivered[r]
    BY <2>1, <1>q
  <2> QED BY <2>5, <2>6
<1>4. ASSUME DeliverError(s) PROVE Left
  <2>1. undelivered' = [undelivered EXCEPT ![s] = <<>>] /\ channel' = Append(channel, Broken) /\ cursor' = cursor
    BY <1>4 DEF DeliverError
  <2>2. /\ undelivered'[s] = <<>> /\ DOMAIN undelivered' = Streams
        /\ undelivered' = [r \in Streams |-> undelivered'[r]]
        /\ \A r \in Streams : r # s => undelivered'[r] = undelivered[r]
    BY <2>1, <1>q
  <2>3. channel' \in Seq({Broken} \cup Telling) /\ channel' # <<>> BY <2>1, <1>w DEF PipeIs
  <2>4. cursor' \in Behind BY <2>1, <1>1, <1>w DEF PipeIs
  <2> QED BY <2>2, <2>3, <2>4
<1>5. Left BY <1>2, <1>3, <1>4
<1>6. PipeIs'
  <2>1. \A r \in Streams : undelivered'[r] \in Seq(EventsUpto(version[r])) BY <1>5, <1>w DEF PipeIs
  <2>2. Behind' = Behind /\ Telling' = Telling BY <1>1 DEF Behind, Telling
  <2>3. Behind \subseteq Positions BY DEF Behind
  <2> QED BY <1>1, <1>5, <2>1, <2>2, <2>3 DEF PipeIs
<1>7. AllOnTheirWay'
  <2>1. SUFFICES ASSUME NEW r \in Streams, version[r] > verified[r] PROVE OnItsWay(r)'
    BY <1>1 DEF AllOnTheirWay
  <2>2. OnItsWay(r) BY <1>1, <2>1 DEF WatchInv, AllOnTheirWay
  <2>3. version[r] > 0 BY <2>1, <1>w DEF WorldIs
  <2>4. ASSUME NEW i \in DOMAIN undelivered[r], undelivered[r][i].at = version[r] PROVE OnItsWay(r)'
    <3>1. CASE r = s BY <1>1, <1>5, <2>3, <2>4, <3>1 DEF OnItsWay
    <3>2. CASE r # s BY <1>1, <1>5, <2>4, <3>2 DEF OnItsWay
    <3> QED BY <3>1, <3>2
  <2>5. CASE channel # <<>> BY <1>5, <2>5 DEF OnItsWay
  <2>6. CASE Latched(trigger) BY <1>1, <2>6 DEF OnItsWay
  <2> QED BY <1>1, <2>2, <2>4, <2>5, <2>6 DEF OnItsWay
<1> QED BY <1>1, <1>6, <1>7, PartsKept DEF WatchInv

-----------------------------------------------------------------------------
(* The worker *)

LEMMA ArmKeeps == ASSUME WatchInv, Arm PROVE WatchInv'
<1>w. WorldIs /\ DeskIs /\ SavedIs BY DEF WatchInv
<1>1. /\ work = None /\ commands = <<>> /\ stage' = "commands" /\ due' = FALSE /\ resting' = FALSE
      /\ cursor' = [s \in Streams |-> Prepared(s)] /\ undelivered' = [s \in Streams |-> Replayed(s)]
      /\ channel' = <<>> /\ trigger' = [NoTrigger EXCEPT !.boot = TRUE, !.observed = cursor']
      /\ UNCHANGED <<version, journal, verified, work, commands, saved>>
  BY DEF Arm, worldVars, deskVars
<1>2. ASSUME NEW s \in Streams, Resumes(s)
      PROVE  saved[s] \in CursorsUpto(version[s])
  <2>1. saved \in Positions /\ saved[s].upto <= verified[s] BY <1>2, <1>w DEF Resumes, SavedIs, CheckpointIsEarned
  <2>2. saved[s] \in Cursors /\ saved[s].upto \in Nat BY <2>1 DEF Positions, Cursors
  <2> QED BY <2>1, <2>2, <1>w DEF CursorsUpto, WorldIs
<1>3. ASSUME NEW s \in Streams PROVE Prepared(s) \in CursorsUpto(version[s])
  <2>1. journal[s] \in [uuid : Nat, last : Nat, base : Nat] /\ version[s] \in Nat BY <1>w DEF WorldIs
  <2>2. [uuid |-> journal[s].uuid, resets |-> 0, id |-> journal[s].last, upto |-> version[s]]
          \in CursorsUpto(version[s])
    BY <2>1 DEF CursorsUpto, Cursors
  <2> QED BY <1>2, <2>2 DEF Prepared
<1>4. cursor' \in Behind BY <1>1, <1>3 DEF Behind, Positions, CursorsUpto
<1>5. ASSUME NEW s \in Streams PROVE Replayed(s) \in Seq(EventsUpto(version[s]))
  <2>1. journal[s] \in [uuid : Nat, last : Nat, base : Nat] /\ version[s] \in Nat
        /\ journal[s].base + journal[s].last <= version[s]
    BY <1>w DEF WorldIs
  <2>2. CASE Resumes(s) /\ saved[s].id < journal[s].last
    <3>1. saved[s].id \in Nat BY <1>2, <2>2 DEF CursorsUpto, Cursors
    <3> DEFINE n == journal[s].last - saved[s].id
               e(i) == [id |-> saved[s].id + i, at |-> journal[s].base + saved[s].id + i,
                        kind |-> "inside", wrapped |-> FALSE]
               head == [i \in 1..n |-> e(i)]
               mark == [id |-> 0, at |-> 0, kind |-> "done", wrapped |-> FALSE]
    <3>2. n \in Nat BY <2>1, <2>2, <3>1
    <3>3. \A i \in 1..n : e(i) \in EventsUpto(version[s])
      <4> SUFFICES ASSUME NEW i \in 1..n PROVE e(i) \in EventsUpto(version[s]) OBVIOUS
      <4>1. journal[s].base + saved[s].id + i <= version[s] /\ journal[s].base + saved[s].id + i \in Nat
            /\ saved[s].id + i \in Nat
        BY <2>1, <3>1
      <4> QED BY <4>1 DEF EventsUpto, Events, Kinds
    <3>4. head \in Seq(EventsUpto(version[s]))
      <4> HIDE DEF n, e
      <4> QED BY <3>2, <3>3
    <3>5. mark \in EventsUpto(version[s]) BY <2>1 DEF EventsUpto, Events, Kinds
    <3>6. Replayed(s) = head \o <<mark>> BY <2>2 DEF Replayed
    <3> HIDE DEF head, mark, n, e
    <3> QED BY <3>4, <3>5, <3>6
  <2>3. CASE ~(Resumes(s) /\ saved[s].id < journal[s].last)
    <3>1. Replayed(s) = <<>> BY <2>3, Zenon DEF Replayed
    <3> QED BY <3>1
  <2> QED BY <2>2, <2>3
<1>6. Behind' = Behind BY <1>1 DEF Behind
<1>7. PipeIs'
  <2>1. undelivered' = [s \in Streams |-> undelivered'[s]] /\ DOMAIN undelivered' = Streams BY <1>1
  <2>2. \A s \in Streams : undelivered'[s] \in Seq(EventsUpto(version[s])) BY <1>1, <1>5
  <2>3. cursor' \in Positions BY <1>4 DEF Behind
  <2> QED BY <1>1, <1>4, <1>6, <2>1, <2>2, <2>3 DEF PipeIs
<1>8. trigger' \in Triggers /\ trigger'.observed = cursor' /\ trigger'.active = None /\ trigger'.boot
  <2>1. cursor' \in Positions BY <1>4 DEF Behind
  <2> QED BY <1>1, <2>1, NoTriggerIs DEF Triggers, NoTrigger
<1>9. TriggerIs' BY <1>1, <1>4, <1>6, <1>8 DEF TriggerIs, Listening
<1>10. DeskIs' /\ SavedIs' /\ WorldIs' BY <1>1, <1>w DEF DeskIs, SavedIs, CheckpointIsEarned, WorldIs
<1>11. TicketIsInHand' /\ AllOnTheirWay' BY <1>1, <1>8 DEF TicketIsInHand, AllOnTheirWay, OnItsWay, Latched
<1> QED BY <1>1, <1>7, <1>9, <1>10, <1>11 DEF WatchInv, Listening, Stages

LEMMA OneLong ==
  ASSUME NEW S, NEW q \in Seq(S), q # <<>>, Len(q) <= 1
  PROVE  Len(q) = 1 /\ Tail(q) = <<>> /\ Head(q) = q[1] /\ q[1] \in S
<1>1. Len(q) = 1
  <2>1. Len(q) \in Nat OBVIOUS
  <2>2. Len(q) # 0 OBVIOUS
  <2> QED BY <2>1, <2>2
<1>2. Tail(q) \in Seq(S) /\ Len(Tail(q)) = 0 BY <1>1
<1>3. \A r \in Seq(S) : Len(r) = 0 => r = <<>> OBVIOUS
<1>4. Tail(q) = <<>> BY <1>2, <1>3
<1>5. Head(q) = q[1] /\ q[1] \in S BY <1>1
<1> QED BY <1>1, <1>4, <1>5

\* What comes back is the ticket in hand, and nothing else is under way.
LEMMA AnswerIsTheTicket ==
  ASSUME WatchInv, Listening, commands # <<>>
  PROVE  /\ work = None /\ Len(commands) = 1 /\ Tail(commands) = <<>> /\ Head(commands) = commands[1]
         /\ commands[1] \in Completions /\ trigger \in Triggers
         /\ trigger.active # None /\ trigger.active.id = commands[1][2] /\ trigger.active \in Tickets
         /\ trigger.active.full = None => trigger.active.paths # {}
<1>1. DeskIs /\ TriggerIs /\ TicketIsInHand BY DEF WatchInv
<1>2. commands \in Seq(Completions) /\ Len(commands) <= 1 BY <1>1 DEF DeskIs
<1>3. Len(commands) = 1 /\ Tail(commands) = <<>> /\ Head(commands) = commands[1] /\ commands[1] \in Completions
  BY <1>2, OneLong
<1>4. work = None BY <1>1 DEF DeskIs
<1>5. trigger.active # None /\ trigger.active.id = commands[1][2] BY <1>1 DEF TicketIsInHand
<1>6. trigger \in Triggers /\ (trigger.active.full = None => trigger.active.paths # {}) BY <1>1, <1>5 DEF TriggerIs
<1>7. trigger.active \in Tickets BY <1>5, <1>6 DEF Triggers
<1> QED BY <1>3, <1>4, <1>5, <1>6, <1>7

\* A failed ticket goes back into the trigger.
LEMMA RequeueKeeps ==
  ASSUME WatchInv, Listening, commands # <<>>, trigger' = Requeued(trigger), commands' = Tail(commands),
         UNCHANGED <<version, journal, verified, undelivered, cursor, channel, work, saved, stage>>,
         due' = FALSE, resting' = TRUE
  PROVE  WatchInv'
<1>1. /\ Requeued(trigger) \in Triggers /\ Requeued(trigger).active = None
      /\ Requeued(trigger).observed = trigger.observed /\ Latched(Requeued(trigger))
  BY AnswerIsTheTicket, TriggerRequeues
<1>2. Listening' = Listening /\ Behind' = Behind BY DEF Listening, Behind
<1>3. TriggerIs' BY <1>1, <1>2 DEF TriggerIs, WatchInv
<1>4. work' = None /\ commands' = <<>> BY AnswerIsTheTicket
<1>5. DeskIs'
  <2>1. <<>> \in Seq(Completions) /\ Len(<<>>) <= 1 OBVIOUS
  <2> QED BY <1>4, <2>1 DEF DeskIs
<1>6. TicketIsInHand' /\ AllOnTheirWay' BY <1>1, <1>4 DEF TicketIsInHand, AllOnTheirWay, OnItsWay
<1> QED BY <1>2, <1>3, <1>5, <1>6, PartsKept DEF WatchInv

LEMMA PublishedKeeps == ASSUME WatchInv, CompletionArrives PROVE WatchInv'
<1>1. /\ Listening /\ commands # <<>> /\ Head(commands)[1] = "published" /\ commands' = Tail(commands)
      /\ due' = FALSE /\ resting' = TRUE
      /\ UNCHANGED <<version, journal, verified, undelivered, cursor, channel, work, stage>>
  BY DEF CompletionArrives, Listening, worldVars, pipeVars
<1>2. \/ saved' = trigger.active.through /\ trigger' = Discarded(trigger)
      \/ trigger' = Requeued(trigger) /\ UNCHANGED saved
  BY <1>1, AnswerIsTheTicket DEF CompletionArrives, Persist
<1>3. CASE trigger' = Requeued(trigger) /\ UNCHANGED saved BY <1>1, <1>3, RequeueKeeps
<1>4. CASE saved' = trigger.active.through /\ trigger' = Discarded(trigger)
  <2>1. /\ trigger \in Triggers /\ trigger.active \in Tickets /\ work = None /\ commands' = <<>>
        /\ commands[1][1] = "published" /\ trigger.active # None
    BY <1>1, AnswerIsTheTicket
  <2>2. trigger' \in Triggers /\ trigger'.active = None /\ trigger'.observed = trigger.observed
        /\ trigger'.boot = trigger.boot /\ trigger'.full = trigger.full /\ trigger'.paths = trigger.paths
    BY <1>4, <2>1 DEF Discarded, Triggers
  <2>3. Listening' = Listening /\ Behind' = Behind BY <1>1 DEF Listening, Behind
  <2>4. TriggerIs' BY <1>1, <2>2, <2>3 DEF TriggerIs, WatchInv
  <2>5. SavedIs'
    <3>1. trigger.active.through \in Positions BY <2>1 DEF Tickets
    <3>2. \A s \in Streams : trigger.active.through[s].upto <= verified[s]
      BY <1>1, <2>1 DEF WatchInv, TicketIsInHand
    <3> QED BY <1>1, <1>4, <3>1, <3>2 DEF SavedIs, CheckpointIsEarned
  <2>6. DeskIs'
    <3>1. <<>> \in Seq(Completions) /\ Len(<<>>) <= 1 OBVIOUS
    <3> QED BY <1>1, <2>1, <3>1 DEF DeskIs
  <2>7. TicketIsInHand' BY <1>1, <2>1 DEF TicketIsInHand
  <2>8. AllOnTheirWay'
    <3>1. SUFFICES ASSUME NEW s \in Streams, version[s] > verified[s] PROVE OnItsWay(s)'
      BY <1>1 DEF AllOnTheirWay
    <3>2. OnItsWay(s) BY <1>1, <3>1 DEF WatchInv, AllOnTheirWay
    <3>3. Latched(trigger) => Latched(trigger') BY <2>2 DEF Latched
    <3> QED BY <1>1, <2>1, <3>2, <3>3 DEF OnItsWay
  <2> QED BY <1>1, <2>3, <2>4, <2>5, <2>6, <2>7, <2>8, PartsKept DEF WatchInv
<1> QED BY <1>2, <1>3, <1>4

LEMMA TerminatedKeeps == ASSUME WatchInv, Terminated PROVE WatchInv'
<1>1. /\ Listening /\ commands # <<>> /\ commands' = Tail(commands) /\ due' = FALSE /\ resting' = TRUE
      /\ UNCHANGED <<version, journal, verified, undelivered, cursor, channel, work, saved, stage>>
  BY DEF Terminated, Listening, worldVars, pipeVars
<1>2. trigger' = Requeued(trigger) BY <1>1, AnswerIsTheTicket DEF Terminated
<1> QED BY <1>1, <1>2, RequeueKeeps

LEMMA ReceiveKeeps == ASSUME WatchInv, Receive PROVE WatchInv'
<1>w. WorldIs /\ PipeIs /\ TriggerIs /\ DeskIs /\ SavedIs BY DEF WatchInv
<1>1. /\ Listening /\ channel # <<>> /\ channel \in Seq({Broken} \cup Telling)
      /\ UNCHANGED <<version, journal, verified, work, commands, saved, resting>>
  BY <1>w DEF Receive, Listening, worldVars, deskVars, PipeIs
<1>2. Head(channel) \in {Broken} \cup Telling /\ Tail(channel) \in Seq({Broken} \cup Telling) BY <1>1
<1>3. CASE Head(channel) = Broken
  <2>1. /\ stage' = "polling" /\ trigger' = NoTrigger /\ due' = FALSE
        /\ undelivered' = [s \in Streams |-> <<>>] /\ channel' = <<>> /\ cursor' = None
    BY <1>3 DEF Receive
  <2>2. ~Listening' BY <2>1 DEF Listening
  <2>3. PipeIs' BY <2>1, <2>2 DEF PipeIs
  <2>4. TriggerIs' BY <2>1, <2>2, NoTriggerIs DEF TriggerIs
  <2>5. WorldIs' /\ DeskIs' /\ SavedIs' BY <1>1, <1>w DEF WorldIs, DeskIs, SavedIs, CheckpointIsEarned
  <2> QED BY <1>1, <2>1, <2>2, <2>3, <2>4, <2>5 DEF WatchInv, Stages
<1>4. CASE Head(channel) # Broken
  <2> DEFINE b == Head(channel)
  <2>1. /\ stage' = "periodic" /\ channel' = Tail(channel) /\ trigger' = Observed(trigger, b)
        /\ UNCHANGED <<undelivered, cursor, due>>
    BY <1>4 DEF Receive
  <2>2. b \in Batches /\ b.through \in Behind /\ (b.paths # {} \/ b.invalid) BY <1>2, <1>4 DEF Telling
  <2>3. trigger \in Triggers BY <1>w DEF TriggerIs
  <2> HIDE DEF b
  <2>4. /\ trigger' \in Triggers /\ trigger'.observed = b.through /\ trigger'.active = trigger.active
        /\ Latched(trigger')
    BY <2>1, <2>2, <2>3, TriggerObserves
  <2>5. Listening' = Listening /\ Behind' = Behind /\ Telling' = Telling
    BY <1>1, <2>1 DEF Receive, Listening, Behind, Telling
  <2>6. TriggerIs' BY <1>1, <1>w, <2>2, <2>4, <2>5 DEF TriggerIs
  <2>7. PipeIs' BY <1>1, <1>2, <1>w, <2>1, <2>5 DEF PipeIs
  <2>8. AllOnTheirWay' BY <1>1, <2>1, <2>4, StillOnTheirWay
  <2> QED BY <1>1, <2>1, <2>4, <2>5, <2>6, <2>7, <2>8, PartsKept DEF WatchInv, Stages
<1> QED BY <1>3, <1>4

\* Time, the end of a wait, the periodic request.
LEMMA TriggerAges ==
  ASSUME WatchInv, QuietPasses
  PROVE  WatchInv'
<1>1. trigger' = [trigger EXCEPT !.debounce = "over"] /\ trigger.debounce = "running"
      /\ UNCHANGED <<version, journal, verified, undelivered, cursor, channel, work, commands, saved, stage, due, resting>>
  BY DEF QuietPasses, worldVars, pipeVars, deskVars
<1>2. trigger \in Triggers /\ TriggerIs BY DEF WatchInv, TriggerIs
<1>3. /\ trigger' \in Triggers /\ trigger'.active = trigger.active /\ trigger'.observed = trigger.observed
      /\ (Latched(trigger) => Latched(trigger'))
  BY <1>1, <1>2 DEF Triggers, Ages, Latched
<1>4. Listening /\ Listening' BY <1>1, <1>2 DEF TriggerIs, NoTrigger, Listening
<1>5. TriggerIs'
  <2>1. Behind' = Behind BY <1>1 DEF Behind
  <2> QED BY <1>2, <1>3, <1>4, <2>1 DEF TriggerIs
<1>6. AllOnTheirWay' BY <1>1, <1>3, <1>4, StillOnTheirWay
<1> QED BY <1>1, <1>3, <1>4, <1>5, <1>6, PartsKept DEF WatchInv

LEMMA PeriodicKeeps == ASSUME WatchInv, Periodic PROVE WatchInv'
<1>w. PipeIs /\ TriggerIs BY DEF WatchInv
<1>1. /\ stage = "periodic" /\ stage' = "rest" /\ due' = FALSE
      /\ trigger' = IF due THEN Periodically(trigger, cursor) ELSE trigger
      /\ UNCHANGED <<version, journal, verified, undelivered, cursor, channel, work, commands, saved, resting>>
  BY DEF Periodic, worldVars, pipeVars, deskVars
<1>2. Listening /\ Listening' = Listening BY <1>1 DEF Listening
<1>3. cursor \in Behind /\ cursor \in Positions /\ trigger \in Triggers /\ Behind' = Behind
  BY <1>1, <1>2, <1>w DEF PipeIs, TriggerIs, Behind
<1>4. /\ trigger' \in Triggers /\ trigger'.active = trigger.active /\ trigger'.observed \in Behind
      /\ (Latched(trigger) => Latched(trigger'))
  BY <1>1, <1>2, <1>3, <1>w, TriggerAsksPeriodically DEF TriggerIs
<1>5. TriggerIs' BY <1>2, <1>3, <1>4, <1>w DEF TriggerIs
<1>6. AllOnTheirWay' BY <1>1, <1>2, <1>4, StillOnTheirWay
<1> QED BY <1>1, <1>2, <1>4, <1>5, <1>6, PartsKept DEF WatchInv, Stages

LEMMA TakeWorkKeeps == ASSUME WatchInv, TakeWork PROVE WatchInv'
<1>w. WorldIs /\ TriggerIs /\ DeskIs BY DEF WatchInv
<1>1. /\ stage = "rest" /\ stage' = "commands"
      /\ UNCHANGED <<version, journal, verified, undelivered, cursor, channel, commands, saved, due, resting>>
  BY DEF TakeWork, worldVars, pipeVars
<1>2. Listening /\ Listening' = Listening /\ Behind' = Behind BY <1>1 DEF Listening, Behind
<1>3. CASE UNCHANGED <<trigger, work>>
  BY <1>1, <1>2, <1>3, PartsKept, StillOnTheirWay DEF WatchInv, Stages
<1>4. CASE HasWork(trigger) /\ trigger' = Taken(trigger) /\ work' = [id |-> trigger.next, sees |-> None]
  <2>1. trigger \in Triggers /\ trigger.observed \in Behind /\ trigger.observed \in Positions
    BY <1>2, <1>w DEF TriggerIs, Behind
  <2>2. trigger.active = None /\ Latched(trigger) BY <1>4 DEF HasWork
  <2>3. work = None /\ commands = <<>> BY <1>2, <2>2 DEF WatchInv, TicketIsInHand
  <2>4. /\ trigger' \in Triggers /\ trigger'.active \in Tickets /\ trigger'.active.id = trigger.next
        /\ trigger'.observed = trigger.observed /\ trigger'.active.through = trigger.observed
        /\ (trigger'.active.full = None => trigger'.active.paths # {}) /\ trigger'.active # None
    BY <1>4, <2>1, <2>2, TriggerTakes, NoneIsNone
  <2>5. work' \in Works /\ work' # None /\ work'.id = trigger.next /\ work'.sees = None
    BY <1>4, <2>1, NoneIsNone DEF Works, Triggers
  <2>6. TriggerIs' BY <1>2, <2>1, <2>4 DEF TriggerIs
  <2>7. DeskIs'
    <3>1. <<>> \in Seq(Completions) /\ Len(<<>>) <= 1 OBVIOUS
    <3> QED BY <1>1, <2>3, <2>5, <3>1 DEF DeskIs
  <2>8. TicketIsInHand' BY <1>1, <2>3, <2>4, <2>5 DEF TicketIsInHand
  <2>9. AllOnTheirWay' BY <2>5 DEF AllOnTheirWay, OnItsWay
  <2> QED BY <1>1, <1>2, <2>6, <2>7, <2>8, <2>9, PartsKept DEF WatchInv, Stages
<1> QED BY <1>3, <1>4 DEF TakeWork

LEMMA WaitKeeps ==
  ASSUME WatchInv, ReceiveTimesOut \/ IntervalPasses
  PROVE  WatchInv'
<1>1. /\ UNCHANGED <<version, journal, verified, undelivered, cursor, channel, trigger, work, commands, saved>>
      /\ Listening' = Listening /\ stage' \in Stages /\ due' \in BOOLEAN /\ resting' \in BOOLEAN
  <2>1. CASE ReceiveTimesOut
    BY <2>1 DEF ReceiveTimesOut, Listening, Stages, worldVars, pipeVars, deskVars, WatchInv
  <2>2. CASE IntervalPasses
    BY <2>2 DEF IntervalPasses, Listening, worldVars, pipeVars, deskVars, WatchInv
  <2> QED BY <2>1, <2>2
<1> QED BY <1>1, PartsKept, StillOnTheirWay DEF WatchInv

-----------------------------------------------------------------------------
(* Polling, the desktop, the process *)

LEMMA PollingKeeps == ASSUME WatchInv, PollingTakes \/ PollingHears PROVE WatchInv'
<1>w. DeskIs BY DEF WatchInv
<1>1. /\ ~Listening /\ Listening' = Listening
      /\ UNCHANGED <<version, journal, verified, undelivered, cursor, channel, trigger, saved, stage, resting>>
      /\ due' = FALSE
  BY DEF PollingTakes, PollingHears, Listening, worldVars, pipeVars
<1>2. DeskIs'
  <2>1. CASE PollingTakes
    <3>1. work' \in Works /\ work'.sees = None BY <2>1 DEF PollingTakes, Works, TicketIds
    <3>2. commands' = <<>> BY <2>1 DEF PollingTakes
    <3>3. <<>> \in Seq(Completions) /\ Len(<<>>) <= 1 OBVIOUS
    <3> QED BY <3>1, <3>2, <3>3 DEF DeskIs
  <2>2. CASE PollingHears
    <3>1. commands # <<>> /\ commands' = Tail(commands) /\ work' = work BY <2>2 DEF PollingHears
    <3>2. Tail(commands) = <<>> BY <1>w, <3>1, OneLong DEF DeskIs
    <3>3. <<>> \in Seq(Completions) /\ Len(<<>>) <= 1 OBVIOUS
    <3> QED BY <1>1, <1>w, <3>1, <3>2, <3>3 DEF DeskIs
  <2> QED BY <2>1, <2>2
<1> QED BY <1>1, <1>2, PartsKept DEF WatchInv

LEMMA CompareStartsKeeps == ASSUME WatchInv, CompareStarts PROVE WatchInv'
<1>w. WorldIs /\ TriggerIs /\ DeskIs BY DEF WatchInv
<1>1. /\ work # None /\ work.sees = None /\ work' = [work EXCEPT !.sees = version]
      /\ UNCHANGED <<version, journal, verified, undelivered, cursor, channel, commands, trigger, saved, stage, due, resting>>
      /\ Listening' = Listening
  BY DEF CompareStarts, Listening, worldVars, pipeVars
<1>2. work \in Works /\ version \in [Streams -> Nat] BY <1>1, <1>w DEF DeskIs, WorldIs
<1>3. work' \in Works /\ work'.sees = version /\ work'.id = work.id BY <1>1, <1>2 DEF Works
<1>4. work' # None BY <1>3, NoneIsNone
<1>5. DeskIs'
  <2>1. \A s \in Streams : version[s] <= version[s] BY <1>2
  <2> QED BY <1>1, <1>3, <1>w, <2>1 DEF DeskIs
<1>6. ASSUME Listening PROVE TicketIsInHand' /\ AllOnTheirWay'
  <2>1. trigger.active # None /\ trigger.active.id = work.id /\ trigger.active.through \in Behind
    BY <1>1, <1>6, <1>w DEF WatchInv, TicketIsInHand, TriggerIs
  <2>2. TicketIsInHand' BY <1>1, <1>3, <1>w, <2>1 DEF TicketIsInHand, Behind, DeskIs
  <2>3. AllOnTheirWay' BY <1>1, <1>3, <1>4 DEF AllOnTheirWay, OnItsWay
  <2> QED BY <2>2, <2>3
<1> QED BY <1>1, <1>5, <1>6, PartsKept DEF WatchInv

\* The command that a compare ends with.
LEMMA OneCommand ==
  ASSUME NEW word \in {"published", "terminated"}, NEW id \in TicketIds, commands = <<>>,
         commands' = Append(commands, <<word, id>>)
  PROVE  /\ commands' \in Seq(Completions) /\ Len(commands') = 1 /\ commands' # <<>>
         /\ commands'[1][1] = word /\ commands'[1][2] = id
<1> DEFINE c == <<word, id>>
<1>1. c \in Completions /\ c[1] = word /\ c[2] = id BY DEF Completions
<1>2. commands' = Append(<<>>, c) OBVIOUS
<1> HIDE DEF c
<1>3. Append(<<>>, c) = <<c>> OBVIOUS
<1>4. <<c>> \in Seq(Completions) /\ Len(<<c>>) = 1 /\ <<c>> # <<>> /\ <<c>>[1] = c BY <1>1
<1> QED BY <1>1, <1>2, <1>3, <1>4

LEMMA CompareFailsKeeps == ASSUME WatchInv, CompareFails PROVE WatchInv'
<1>w. DeskIs BY DEF WatchInv
<1>1. /\ work # None /\ commands' = Append(commands, <<"terminated", work.id>>) /\ work' = None
      /\ UNCHANGED <<version, journal, verified, undelivered, cursor, channel, trigger, saved, stage, due, resting>>
      /\ Listening' = Listening
  BY DEF CompareFails, Listening, worldVars, pipeVars
<1>2. commands = <<>> /\ work.id \in TicketIds BY <1>1, <1>w DEF DeskIs, Works
<1>3. /\ commands' \in Seq(Completions) /\ Len(commands') = 1 /\ commands' # <<>>
      /\ commands'[1][1] = "terminated" /\ commands'[1][2] = work.id
  BY <1>1, <1>2, OneCommand
<1>4. DeskIs' BY <1>1, <1>3 DEF DeskIs
<1>5. ASSUME Listening PROVE TicketIsInHand' /\ AllOnTheirWay'
  <2>1. TicketIsInHand' BY <1>1, <1>3, <1>5 DEF WatchInv, TicketIsInHand
  <2>2. AllOnTheirWay' BY <1>3 DEF AllOnTheirWay, OnItsWay
  <2> QED BY <2>1, <2>2
<1> QED BY <1>1, <1>4, <1>5, PartsKept DEF WatchInv

LEMMA CompareSucceedsKeeps == ASSUME WatchInv, CompareSucceeds PROVE WatchInv'
<1>w. WorldIs /\ DeskIs /\ SavedIs BY DEF WatchInv
<1>1. /\ work # None /\ work.sees # None /\ commands' = Append(commands, <<"published", work.id>>)
      /\ verified' = [s \in Streams |-> IF work.sees[s] > verified[s] THEN work.sees[s] ELSE verified[s]]
      /\ work' = None
      /\ UNCHANGED <<version, journal, undelivered, cursor, channel, trigger, saved, stage, due, resting>>
      /\ Listening' = Listening
  BY DEF CompareSucceeds, Listening, worldVars, pipeVars
<1>2. commands = <<>> /\ work.id \in TicketIds /\ work.sees \in [Streams -> Nat] BY <1>1, <1>w DEF DeskIs, Works
<1>3. /\ commands' \in Seq(Completions) /\ Len(commands') = 1 /\ commands' # <<>>
      /\ commands'[1][1] = "published" /\ commands'[1][2] = work.id
  BY <1>1, <1>2, OneCommand
<1>4. DeskIs' BY <1>1, <1>3 DEF DeskIs
<1>5. /\ verified' \in [Streams -> Nat]
      /\ \A s \in Streams : /\ work.sees[s] <= verified'[s] /\ verified[s] <= verified'[s]
                             /\ verified'[s] <= version[s]
                             /\ verified'[s] \in Nat /\ verified[s] \in Nat /\ work.sees[s] \in Nat
                             /\ version[s] \in Nat
  BY <1>1, <1>2, <1>w DEF WorldIs, DeskIs
<1>6. WorldIs' BY <1>1, <1>5, <1>w DEF WorldIs
<1>7. SavedIs'
  <2>1. ASSUME saved \notin {Missing, Spoiled}, NEW s \in Streams PROVE saved[s].upto <= verified'[s]
    <3>1. saved[s].upto <= verified[s] /\ saved[s].upto \in Nat
      BY <1>w, <2>1 DEF SavedIs, CheckpointIsEarned, Positions, Cursors
    <3> QED BY <3>1, <1>5
  <2> QED BY <1>1, <1>w, <2>1 DEF SavedIs, CheckpointIsEarned
<1>8. ASSUME Listening PROVE TicketIsInHand' /\ AllOnTheirWay'
  <2>1. /\ trigger.active # None /\ trigger.active.id = work.id
        /\ trigger.active.through \in Behind
        /\ \A s \in Streams : trigger.active.through[s].upto <= work.sees[s]
    BY <1>1, <1>8 DEF WatchInv, TicketIsInHand, TriggerIs
  <2>2. \A s \in Streams : trigger.active.through[s].upto <= verified'[s]
    <3>1. SUFFICES ASSUME NEW s \in Streams PROVE trigger.active.through[s].upto <= verified'[s] OBVIOUS
    <3>2. trigger.active.through[s].upto \in Nat BY <2>1 DEF Behind, Positions, Cursors
    <3> QED BY <3>2, <2>1, <1>5
  <2>3. TicketIsInHand' BY <1>1, <1>3, <2>1, <2>2 DEF TicketIsInHand
  <2>4. ASSUME NEW s \in Streams, version[s] > verified'[s] PROVE OnItsWay(s)'
    <3>1. version[s] > verified[s] /\ work.sees[s] # version[s] BY <1>5, <2>4
    <3>2. OnItsWay(s) BY <1>8, <3>1 DEF WatchInv, AllOnTheirWay
    <3> QED BY <1>1, <1>2, <3>1, <3>2 DEF OnItsWay
  <2> QED BY <1>1, <2>3, <2>4 DEF AllOnTheirWay
<1> QED BY <1>1, <1>4, <1>6, <1>7, <1>8, PartsKept DEF WatchInv

LEMMA RestartKeeps == ASSUME WatchInv, Restart PROVE WatchInv'
<1>w. WorldIs /\ SavedIs BY DEF WatchInv
<1>1. /\ stage' = "off" /\ work' = None /\ commands' = <<>> /\ trigger' = NoTrigger
      /\ undelivered' = [s \in Streams |-> <<>>] /\ channel' = <<>>
      /\ cursor' = None /\ due' = FALSE /\ resting' = FALSE /\ ~Listening'
      /\ UNCHANGED <<version, journal, verified, saved>>
  BY DEF Restart, Listening, worldVars
<1>2. WorldIs' /\ SavedIs' BY <1>1, <1>w DEF WorldIs, SavedIs, CheckpointIsEarned
<1>3. PipeIs' BY <1>1 DEF PipeIs
<1>4. TriggerIs' BY <1>1, NoTriggerIs DEF TriggerIs
<1>5. DeskIs'
  <2>1. <<>> \in Seq(Completions) /\ Len(<<>>) <= 1 OBVIOUS
  <2> QED BY <1>1, <2>1 DEF DeskIs
<1> QED BY <1>1, <1>2, <1>3, <1>4, <1>5 DEF WatchInv, Stages

LEMMA ArmFailsKeeps == ASSUME WatchInv, ArmFails PROVE WatchInv'
<1>1. /\ stage' = "polling" /\ due' = FALSE /\ resting' = FALSE
      /\ UNCHANGED <<version, journal, verified, undelivered, cursor, channel, work, commands, trigger, saved>>
      /\ Listening' = Listening /\ ~Listening
  BY DEF ArmFails, Listening, worldVars, pipeVars, deskVars
<1> QED BY <1>1, PartsKept DEF WatchInv, Stages, SavedIs, CheckpointIsEarned

LEMMA SpoilKeeps == ASSUME WatchInv, SpoilCheckpoint PROVE WatchInv'
<1>1. /\ saved' = Spoiled
      /\ UNCHANGED <<version, journal, verified, undelivered, cursor, channel, work, commands, trigger, stage, due, resting>>
      /\ Listening' = Listening /\ ~Listening
  BY DEF SpoilCheckpoint, Listening, worldVars, pipeVars, deskVars
<1>2. SavedIs' BY <1>1 DEF SavedIs, CheckpointIsEarned
<1> QED BY <1>1, <1>2, PartsKept DEF WatchInv

LEMMA WatchStep == WatchInv /\ [WatchNext]_watchVars => WatchInv'
<1> SUFFICES ASSUME WatchInv, [WatchNext]_watchVars PROVE WatchInv' OBVIOUS
<1>1. CASE UNCHANGED watchVars
  <2>1. /\ UNCHANGED <<version, journal, verified, undelivered, cursor, channel, trigger, work, commands, saved>>
        /\ UNCHANGED <<stage, due, resting>> /\ Listening' = Listening
    BY <1>1 DEF watchVars, Listening
  <2> QED BY <2>1, PartsKept, StillOnTheirWay DEF WatchInv
<1>2. CASE \E s \in Streams : Change(s) \/ Wrap(s) \/ ReplaceJournal(s)
  BY <1>2, ChangeKeeps, JournalKeeps
<1>3. CASE \E s \in Streams : Deliver(s) \/ DeliverDropped(s) \/ DeliverError(s) BY <1>3, DeliveryKeeps
<1>4. CASE WorkerTurns
  BY <1>4, ArmKeeps, PublishedKeeps, TerminatedKeeps, ReceiveKeeps, WaitKeeps, PeriodicKeeps,
     TakeWorkKeeps, PollingKeeps DEF WorkerTurns
<1>5. CASE CompareTurns \/ CompareFails
  BY <1>5, CompareStartsKeeps, CompareSucceedsKeeps, CompareFailsKeeps DEF CompareTurns
<1>6. CASE TimePasses \/ ArmFails \/ Restart \/ SpoilCheckpoint
  BY <1>6, TriggerAges, WaitKeeps, ArmFailsKeeps, RestartKeeps, SpoilKeeps DEF TimePasses
<1> QED BY <1>1, <1>2, <1>3, <1>4, <1>5, <1>6 DEF WatchNext, CallsBack

\* The types of the watcher, for any number of roots, changes and mishaps.
THEOREM WatchTypeCorrect == WatchSpec => []WatchTypeOK
<1>1. WatchInv => WatchTypeOK
  <2> SUFFICES ASSUME WatchInv PROVE WatchTypeOK OBVIOUS
  <2>1. WorldIs /\ PipeIs /\ TriggerIs /\ DeskIs /\ SavedIs BY DEF WatchInv
  <2>2. \A s \in Streams : undelivered[s] \in Seq(Events)
    <3>1. \A v : EventsUpto(v) \subseteq Events BY DEF EventsUpto
    <3> QED BY <2>1, <3>1, SeqGrows DEF PipeIs
  <2>3. \A i \in DOMAIN channel : channel[i] = Broken \/ channel[i] \in Batches BY <2>1 DEF PipeIs, Telling
  <2>4. trigger.active \in {None} \cup Tickets /\ trigger.full \in Reasons \cup {None}
    BY <2>1 DEF TriggerIs, Triggers
  <2> QED BY <2>1, <2>2, <2>3, <2>4 DEF WatchInv, WatchTypeOK, WorldIs, PipeIs, DeskIs, SavedIs
<1> QED BY WatchInitially, WatchStep, <1>1, PTL DEF WatchSpec

\* The cursor on disk stands for nothing that no published compare has read (VerificationPublished,
\* the callback under the reducer's lock), whatever is dropped, wrapped, killed or restarted.
THEOREM CursorIsEarned == WatchSpec => []CheckpointIsEarned
<1>1. WatchInv => CheckpointIsEarned BY DEF WatchInv, SavedIs
<1> QED BY WatchInitially, WatchStep, <1>1, PTL DEF WatchSpec

\* A change nobody has verified is never lost between the system, the channel, the trigger
\* and the compare, for any number of roots, changes and mishaps.
THEOREM NoChangeIsForgotten == WatchSpec => []NothingIsForgotten
<1>1. WatchInv => NothingIsForgotten
  <2> SUFFICES ASSUME WatchInv, Listening, NEW s \in Streams, version[s] > verified[s]
               PROVE  \/ \E i \in DOMAIN undelivered[s] : undelivered[s][i].at > verified[s]
                      \/ channel # <<>> \/ Latched(trigger)
                      \/ work # None /\ (work.sees = None \/ work.sees[s] = version[s])
                      \/ \E i \in DOMAIN commands : commands[i][1] = "terminated"
    BY DEF NothingIsForgotten
  <2>1. OnItsWay(s) BY DEF WatchInv, AllOnTheirWay
  <2>2. commands # <<>> => 1 \in DOMAIN commands BY DEF WatchInv, DeskIs
  <2> QED BY <2>1, <2>2 DEF OnItsWay
<1> QED BY WatchInitially, WatchStep, <1>1, PTL DEF WatchSpec

=============================================================================
