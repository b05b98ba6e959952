-------------------------- MODULE PeerPackageProofs --------------------------
(***************************************************************************)
(* What an Apply to a peer guarantees for every tree, plan and number of   *)
(* runs, whatever people write on both sides, whatever is lost or damaged  *)
(* on the way and whichever side dies.                                     *)
(*                                                                         *)
(* Phases says where this side and the far sides of its runs can be at one *)
(* time: at most one run is prepared or awaited, and every other far side  *)
(* is over unless its answer was lost.  Honest follows the content from    *)
(* the pass that reads it through the package and the staging directory to *)
(* the far root.  Complete says that no operation is left out on the way,  *)
(* and Fresh that what nobody changed here travels as it is; from the two  *)
(* follows what the archive may claim.                                     *)
(***************************************************************************)
EXTENDS PeerPackage, SequenceTheorems, TLAPS

Packing == {"open", "first", "second"}
Preparing == {"table", "ship", "launch"} \cup Packing

NearType ==
  [at : {"idle", "wait", "refresh"} \cup Preparing, run : 0..Runs, i : 1..(Len(Order) + 1),
   size : Nat, mtime : Nat, read : Seq(Piece), first : Seq(Piece),
   table : SUBSET (Names \X (Data \cup {Gone}))]
FarType ==
  [at : {"none", "decode", "stage", "rebuild", "apply"} \cup Over, i : 1..(Len(Order) + 1),
   staged : [Names -> Data \cup {Gone}], bad : BOOLEAN]
IsEntry(e) ==
  /\ "kind" \in DOMAIN e /\ "hash" \in DOMAIN e
  /\ e.kind \in {"whole", "delta"} /\ e.hash \in Data

Types ==
  /\ tier \in {"full", "sampled", "none"}
  /\ source \in [Names -> [data : Data, mtime : Nat]]
  /\ peer \in [Names -> Data \cup {Gone}] /\ agreed \in [Names -> Data \cup {Gone}]
  /\ near \in NearType
  /\ want \in [Run -> [Names -> [data : Data \cup {Gone}, mtime : Nat]]]
  /\ DOMAIN parcel = Run /\ \A r \in Run : DOMAIN parcel[r] = Names
  /\ \A r \in Run, n \in Names : parcel[r][n] = NoEntry \/ IsEntry(parcel[r][n])
  /\ far \in [Run -> FarType]
  /\ put \in [Run -> [Names -> Data \cup {Gone}]]
  /\ ended \in [Run -> [how : {"no", "clean", "errors", "error", "cancelled"}, writes : BOOLEAN]]
  /\ started \in BOOLEAN /\ stopped \in BOOLEAN /\ mute \subseteq Run /\ stale \subseteq Names
  /\ DOMAIN seen = Names
  /\ writes \in Nat /\ troubles \in Nat

Phases ==
  /\ near.at # "idle" => near.run # 0 /\ ended[near.run].how = "no"
  /\ near.at \in Preparing => far[near.run].at = "none"
  /\ near.at = "refresh" => far[near.run].at = "done"
  /\ near.at \in {"wait", "refresh"} => started
  /\ near.at \in {"first", "second"} => near.i <= Len(Order) /\ Wanted(near.run, Name)
  /\ \A r \in Run : r > near.run =>
       far[r] = Idle /\ ended[r].how = "no" /\ \A n \in Names : parcel[r][n] = NoEntry
  /\ \A r \in Run : far[r].at = "none" => far[r] = Idle /\ \A n \in Names : put[r][n] = Gone
  /\ \A r \in Run : (r < near.run \/ (r = near.run /\ near.at = "idle")) /\ r \notin mute =>
       far[r].at \in Over \cup {"none"}
  /\ \A r \in Run : ended[r].how = "clean" => far[r].at = "done"

BeforeWrites == \A r \in Run : ended[r].how # "no" /\ ~ended[r].writes => far[r].at = "none"

Honest ==
  /\ near.at = "second" => near.first \in Data /\ Matches(near.first, want[near.run][Name])
  /\ \A r \in Run, n \in Names :
       /\ parcel[r][n] # NoEntry => Matches(parcel[r][n].hash, want[r][n])
       /\ far[r].staged[n] # Gone => Matches(far[r].staged[n], want[r][n])
       /\ put[r][n] # Gone => Matches(put[r][n], want[r][n])

Complete ==
  /\ near.at = "table" => near.i = 1
  /\ near.at \in Packing => \A j \in 1..Len(Order) :
       j < near.i /\ Wanted(near.run, Order[j]) => parcel[near.run][Order[j]] # NoEntry
  /\ near.at \in {"ship", "launch"} => \A n \in RunOps(near.run) : parcel[near.run][n] # NoEntry
  /\ \A r \in Run :
       /\ far[r].at # "none" => \A n \in RunOps(r) : parcel[r][n] # NoEntry
       /\ far[r].at = "rebuild" => far[r].i <= Len(Order) /\ Wanted(r, Order[far[r].i])
       /\ far[r].at = "decode" => far[r].i = 1
       /\ far[r].at \in {"stage", "rebuild"} /\ ~far[r].bad => \A j \in 1..Len(Order) :
            j < far[r].i /\ Wanted(r, Order[j]) => far[r].staged[Order[j]] # Gone
       /\ far[r].at = "apply" => \A n \in RunOps(r) : far[r].staged[n] # Gone
       /\ far[r].at = "apply" /\ ~far[r].bad => \A j \in 1..Len(Order) :
            j < far[r].i /\ Wanted(r, Order[j]) => put[r][Order[j]] # Gone
       /\ far[r].at = "done" => \A n \in RunOps(r) : put[r][n] # Gone

Fresh ==
  /\ \A n \in Names : peer[n] \in seen[n]
  /\ \A n \in Names, r \in Run : put[r][n] # Gone => put[r][n] \in seen[n]
  /\ near.at # "idle" => \A n \in Names \ stale :
       /\ Wanted(near.run, n) => want[near.run][n].data = source[n].data
       /\ ~Wanted(near.run, n) => source[n].data \in seen[n]
       /\ parcel[near.run][n] # NoEntry => parcel[near.run][n].hash = source[n].data
       /\ far[near.run].staged[n] # Gone => far[near.run].staged[n] = source[n].data
       /\ put[near.run][n] # Gone => put[near.run][n] = source[n].data
  /\ near.at \in {"first", "second"} /\ Name \notin stale =>
       /\ Len(near.read) <= Len(source[Name].data)
       /\ \A k \in 1..Len(near.read) : near.read[k] = source[Name].data[k]
  /\ near.at = "second" /\ Name \notin stale => near.first = source[Name].data

Inv == Types /\ Phases /\ BeforeWrites /\ Honest /\ Complete /\ Fresh
-----------------------------------------------------------------------------
USE PeerAssumption DEF PeerAssumption

\* The content of a file is a sequence of one piece or more.
LEMMA DataIsSeq ==
  ASSUME NEW d \in Data
  PROVE  d \in Seq(Piece) /\ Len(d) \in 1..Longest /\ d # Gone
<1>1. PICK n \in 1..Longest : d \in [1..n -> Piece] BY DEF Data
<1>2. n \in Nat /\ n >= 1 BY <1>1
<1>3. d \in Seq(Piece) BY <1>1, <1>2, SeqDef
<1>4. DOMAIN d = 1..n /\ DOMAIN d = 1..Len(d) /\ Len(d) \in Nat BY <1>1, <1>3, LenProperties
<1>5. Len(d) = n BY <1>2, <1>4
<1>6. d # Gone BY <1>2, <1>5 DEF Gone
<1> QED BY <1>1, <1>3, <1>5, <1>6

\* A sequence as long as a file may be is the content of one.
LEMMA SeqIsData ==
  ASSUME NEW d \in Seq(Piece), Len(d) \in 1..Longest
  PROVE  d \in Data
<1>1. d \in [1..Len(d) -> Piece] BY LenProperties
<1> QED BY <1>1 DEF Data

LEMMA OrderNames ==
  /\ Len(Order) \in Nat
  /\ \A i \in 1..Len(Order) : Order[i] \in Names
  /\ \A n \in Names : \E i \in 1..Len(Order) : Order[i] = n
<1>1. Order \in Seq(Names) OBVIOUS
<1> QED BY <1>1 DEF Names

\* What agrees with a plan that wants the file is the content of a file.
LEMMA MatchesIsData ==
  ASSUME NEW d \in Seq(Piece), NEW w, w.data \in Data, Matches(d, w)
  PROVE  d \in Data
<1>1. Len(w.data) \in 1..Longest BY DataIsSeq
<1> QED BY <1>1, SeqIsData DEF Matches

LEMMA RunFacts == Run \subseteq 0..Runs /\ Run \subseteq Nat /\ Runs \in Nat /\ 0..Runs = Run \cup {0} /\ 0 \notin Run
BY DEF Run

\* The first state.
LEMMA Initially == PeerInit => Inv
<1> SUFFICES ASSUME PeerInit PROVE Inv OBVIOUS
<1>1. /\ near = Rest /\ started = FALSE /\ stopped = FALSE /\ mute = {} /\ stale = {}
      /\ agreed = [n \in Names |-> Gone] /\ writes = 0 /\ troubles = 0
      /\ want = [r \in Run |-> [n \in Names |-> [data |-> Gone, mtime |-> 0]]]
      /\ parcel = [r \in Run |-> [n \in Names |-> NoEntry]] /\ far = [r \in Run |-> Idle]
      /\ put = [r \in Run |-> [n \in Names |-> Gone]]
      /\ ended = [r \in Run |-> [how |-> "no", writes |-> FALSE]]
      /\ seen = [n \in Names |-> {peer[n]}] /\ tier \in {"full", "sampled", "none"}
  BY DEF PeerInit
<1>2. /\ source \in [Names -> [data : Data, mtime : Nat]] /\ peer \in [Names -> Data \cup {Gone}]
  <2>1. PICK b \in Beginnings : source = [n \in Names |-> [data |-> b.source[n], mtime |-> 0]] /\ peer = b.peer
    BY DEF PeerInit
  <2>2. b.source \in [Names -> Data] /\ b.peer \in [Names -> Data \cup {Gone}]
    OBVIOUS
  <2> QED BY <2>1, <2>2
<1>3. near \in NearType
  <2>1. << >> \in Seq(Piece) /\ 1 \in 1..(Len(Order) + 1) /\ 0 \in 0..Runs BY OrderNames
  <2> QED BY <1>1, <2>1 DEF Rest, NearType
<1>4. Idle \in FarType
  <2>1. 1 \in 1..(Len(Order) + 1) BY OrderNames
  <2> QED BY <2>1 DEF Idle, FarType
<1>5. Types BY <1>1, <1>2, <1>3, <1>4 DEF Types
<1>6. near.at = "idle" /\ near.run = 0 /\ Idle.at = "none" BY <1>1 DEF Rest, Idle
<1>7. \A r \in Run : far[r] = Idle /\ \A n \in Names : put[r][n] = Gone /\ parcel[r][n] = NoEntry
  BY <1>1
<1>8. \A n \in Names : Idle.staged[n] = Gone BY DEF Idle
<1>9. \A r \in Run : ended[r].how = "no" BY <1>1
<1>10. Phases BY <1>6, <1>7, <1>9 DEF Phases, Preparing, Packing
<1>11. BeforeWrites BY <1>9 DEF BeforeWrites
<1>12. Honest BY <1>6, <1>7, <1>8 DEF Honest
<1>13. Complete BY <1>6, <1>7 DEF Complete, Packing
<1>14. Fresh BY <1>1, <1>6, <1>7 DEF Fresh
<1> QED BY <1>5, <1>10, <1>11, <1>12, <1>13, <1>14 DEF Inv
-----------------------------------------------------------------------------
(* What each step does to this side.                                       *)

NearQuiet == UNCHANGED <<tier, source, peer, want, far, put, seen, stale, mute, writes>>

\* This side goes on without a change to the package or the end of its run.
GoesOn ==
  /\ near'.run = near.run /\ UNCHANGED <<parcel, ended, agreed, started>>
  /\ \/ near.at = "table" /\ near'.at = "open" /\ near'.i = near.i
     \/ near.at = "open" /\ near'.at = "ship" /\ near.i > Len(Order)
     \/ /\ near.at = "open" /\ near'.at = "open" /\ near.i <= Len(Order) /\ near'.i = near.i + 1
        /\ ~Wanted(near.run, Order[near.i])
     \/ /\ near.at = "open" /\ near'.at = "first" /\ near.i <= Len(Order) /\ near'.i = near.i
        /\ Wanted(near.run, Order[near.i]) /\ near'.read = << >>
     \/ /\ near.at \in {"first", "second"} /\ near'.at = near.at /\ near'.i = near.i
        /\ near'.first = near.first /\ Len(near.read) < Len(source[Name].data)
        /\ near'.read = Append(near.read, source[Name].data[Len(near.read) + 1])
     \/ /\ near.at = "first" /\ near'.at = "second" /\ near'.i = near.i
        /\ near'.first = near.read /\ near'.read = << >> /\ ~More
        /\ Matches(near.read, want[near.run][Name])
     \/ near.at = "ship" /\ near'.at = "launch"
     \/ near.at = "wait" /\ near'.at = "refresh" /\ far[near.run].at = "done"
     \/ near' = near

\* A payload is in the package.
Packs ==
  /\ near'.run = near.run /\ near.at \in {"first", "second"} /\ near'.at = "open" /\ near'.i = near.i + 1
  /\ UNCHANGED <<ended, agreed, started>>
  /\ \E e : /\ parcel' = [parcel EXCEPT ![near.run][Name] = e]
            /\ "kind" \in DOMAIN e /\ "hash" \in DOMAIN e /\ e.kind \in {"whole", "delta"}
            /\ \/ near.at = "first" /\ e.hash = near.read /\ ~More /\ Matches(near.read, want[near.run][Name])
               \/ near.at = "second" /\ e.hash = near.first

\* The run ends.
Ends(how) ==
  /\ near' = [Rest EXCEPT !.run = near.run] /\ UNCHANGED <<parcel, started>>
  /\ ended' = [ended EXCEPT ![near.run] = [how |-> how, writes |-> started]]
  /\ how \in {"clean", "errors", "error", "cancelled"}
  /\ \/ near.at \in Preparing /\ how # "clean" /\ agreed' = agreed
     \/ near.at = "wait" /\ how # "clean" /\ agreed' = agreed /\ (far[near.run].at \in Over \/ near.run \in mute')
     \/ /\ near.at = "refresh"
        /\ agreed' = agreed \/ (how = "clean" /\ agreed' = [n \in Names |-> source[n].data])

NearAction == Table \/ StopsEarly \/ Open \/ ReadPiece \/ FirstOver \/ SecondOver \/ Ship \/ Answered
              \/ Refresh \/ StopRun

LEMMA NearMoves ==
  ASSUME Types, Phases, NearAction
  PROVE  NearQuiet /\ (GoesOn \/ Packs \/ \E how : Ends(how))
<1>0. near \in NearType BY DEF Types
<1>1. CASE Table
  <2>1. NearQuiet BY <1>1 DEF Table, FarAlone, NearQuiet
  <2>2. near.at = "table" /\ near'.at = "open" /\ near'.i = near.i /\ near'.run = near.run
    BY <1>0, <1>1 DEF Table, Go, NearType
  <2> QED BY <1>1, <2>1, <2>2 DEF Table, GoesOn
<1>2. CASE StopsEarly
  <2>1. NearQuiet BY <1>2 DEF StopsEarly, FarAlone, NearQuiet
  <2>2. Ends("cancelled") BY <1>2 DEF StopsEarly, Ends, EndRun, ThisRun, Preparing, Packing
  <2> QED BY <2>1, <2>2
<1>3. CASE Open
  <2>1. NearQuiet BY <1>3 DEF Open, PackStep, FarAlone, NearQuiet
  <2>2. UNCHANGED <<parcel, ended, agreed, started>> /\ near.at = "open"
    BY <1>3 DEF Open, PackStep
  <2>3. near.i \in Nat /\ Len(Order) \in Nat BY <1>0, OrderNames DEF NearType
  <2>4. CASE near.i > Len(Order) BY <1>0, <1>3, <2>1, <2>2, <2>4 DEF Open, Go, NearType, GoesOn
  <2>5. CASE near.i <= Len(Order) /\ ~Wanted(ThisRun, Name)
    <3>1. near' = [near EXCEPT !.i = @ + 1] BY <1>3, <2>3, <2>5 DEF Open
    <3> QED BY <1>0, <2>1, <2>2, <2>5, <3>1 DEF NearType, GoesOn, ThisRun, Name
  <2>6. CASE near.i <= Len(Order) /\ Wanted(ThisRun, Name)
    <3>1. near' = [near EXCEPT !.at = "first", !.size = Len(source[Name].data),
                               !.mtime = source[Name].mtime, !.read = << >>]
      BY <1>3, <2>3, <2>6 DEF Open
    <3> QED BY <1>0, <2>1, <2>2, <2>6, <3>1 DEF NearType, GoesOn, ThisRun, Name
  <2> QED BY <2>3, <2>4, <2>5, <2>6
<1>4. CASE ReadPiece
  <2>1. NearQuiet /\ UNCHANGED <<parcel, ended, agreed, started>>
    BY <1>4 DEF ReadPiece, PackStep, FarAlone, NearQuiet
  <2>2. /\ near.at \in {"first", "second"} /\ Len(near.read) < Len(source[Name].data)
        /\ near' = [near EXCEPT !.read = Append(@, source[Name].data[Len(@) + 1])]
    BY <1>4 DEF ReadPiece, More
  <2> QED BY <1>0, <2>1, <2>2 DEF GoesOn, NearType
<1>5. CASE FirstOver
  <2>1. NearQuiet /\ UNCHANGED <<agreed, started>> /\ near.at = "first" /\ ~More
    BY <1>5 DEF FirstOver, PackStep, FarAlone, NearQuiet
  <2>2. CASE ~Evidence(near.read)
    <3>1. Ends("error") BY <1>5, <2>1, <2>2 DEF FirstOver, EndRun, Ends, ThisRun, Preparing, Packing
    <3> QED BY <2>1, <3>1
  <2>3. CASE Evidence(near.read) /\ Tables = {}
    <3> DEFINE e == [kind |-> "whole", hash |-> near.read, data |-> near.read]
    <3>1. Packed(e) BY <1>5, <2>3 DEF FirstOver
    <3>2. "kind" \in DOMAIN e /\ "hash" \in DOMAIN e /\ e.kind = "whole" /\ e.hash = near.read OBVIOUS
    <3>3. Matches(near.read, want[near.run][Name]) BY <2>3 DEF Evidence, ThisRun
    <3> HIDE DEF e
    <3>4. near'.run = near.run /\ near'.at = "open" /\ near'.i = near.i + 1 BY <1>0, <3>1 DEF Packed, NearType
    <3> QED BY <2>1, <3>1, <3>2, <3>3, <3>4 DEF Packs, Packed, ThisRun
  <2>4. CASE Evidence(near.read) /\ Tables # {}
    <3>1. near' = [near EXCEPT !.at = "second", !.first = near.read, !.read = << >>] /\ UNCHANGED <<parcel, ended>>
      BY <1>5, <2>4 DEF FirstOver
    <3>2. Matches(near.read, want[near.run][Name]) BY <2>4 DEF Evidence, ThisRun
    <3> QED BY <1>0, <2>1, <3>1, <3>2 DEF GoesOn, NearType
  <2> QED BY <2>2, <2>3, <2>4
<1>6. CASE SecondOver
  <2>1. NearQuiet /\ UNCHANGED <<agreed, started>> /\ near.at = "second"
    BY <1>6 DEF SecondOver, PackStep, FarAlone, NearQuiet
  <2>2. CASE near.read # near.first
    <3>1. Ends("error") BY <1>6, <2>1, <2>2 DEF SecondOver, EndRun, Ends, ThisRun, Preparing, Packing
    <3> QED BY <2>1, <3>1
  <2>3. CASE near.read = near.first
    <3> DEFINE e == [kind |-> "delta", hash |-> near.first, data |-> Unknown(near.read),
                  blob |-> Unknown(near.first), base |-> Base, recipe |-> Recipe(near.first)]
    <3>1. Packed(e) BY <1>6, <2>3 DEF SecondOver
    <3>2. "kind" \in DOMAIN e /\ "hash" \in DOMAIN e /\ e.kind = "delta" /\ e.hash = near.first OBVIOUS
    <3> HIDE DEF e
    <3>3. near'.run = near.run /\ near'.at = "open" /\ near'.i = near.i + 1 BY <1>0, <3>1 DEF Packed, NearType
    <3> QED BY <2>1, <3>1, <3>2, <3>3 DEF Packs, Packed, ThisRun
  <2> QED BY <2>2, <2>3
<1>7. CASE Ship
  <2>1. NearQuiet /\ UNCHANGED <<parcel, agreed, started>> /\ near.at = "ship"
    BY <1>7 DEF Ship, FarAlone, NearQuiet
  <2>2. CASE Go("launch") /\ ended' = ended
    <3>1. near'.at = "launch" /\ near'.run = near.run BY <1>0, <2>2 DEF Go, NearType
    <3> QED BY <2>1, <2>2, <3>1 DEF GoesOn
  <2>3. CASE EndRun("error")
    <3>1. Ends("error") BY <2>1, <2>3 DEF EndRun, Ends, ThisRun, Preparing
    <3> QED BY <2>1, <3>1
  <2> QED BY <1>7, <2>2, <2>3 DEF Ship
<1>8. CASE Answered
  <2>1. NearQuiet /\ UNCHANGED <<parcel, agreed, started>> /\ near.at = "wait" /\ far[near.run].at \in Over
    BY <1>8 DEF Answered, FarAlone, NearQuiet, ThisRun
  <2>2. CASE \E how \in {"errors", "cancelled"} : EndRun(how)
    <3>1. PICK how \in {"errors", "cancelled"} : EndRun(how) BY <2>2
    <3>2. Ends(how) BY <2>1, <3>1 DEF EndRun, Ends, ThisRun
    <3> QED BY <2>1, <3>2
  <2>3. CASE Succeeded /\ Go("refresh") /\ ended' = ended
    <3>1. near'.at = "refresh" /\ near'.run = near.run BY <1>0, <2>3 DEF Go, NearType
    <3> QED BY <2>1, <2>3, <3>1 DEF GoesOn, Succeeded, ThisRun
  <2> QED BY <1>8, <2>2, <2>3 DEF Answered
<1>9. CASE Refresh
  <2>1. NearQuiet /\ UNCHANGED <<parcel, started>> /\ near.at = "refresh"
    BY <1>9 DEF Refresh, FarAlone, NearQuiet
  <2>2. \/ EndRun("clean") /\ agreed' = [n \in Names |-> source[n].data]
        \/ EndRun("cancelled") /\ agreed' = agreed
        \/ EndRun("errors") /\ agreed' = agreed
    BY <1>9 DEF Refresh
  <2>3. Ends("clean") \/ Ends("cancelled") \/ Ends("errors")
    BY <2>1, <2>2 DEF EndRun, Ends, ThisRun
  <2> QED BY <2>1, <2>3
<1>10. CASE StopRun
  BY <1>10 DEF StopRun, NearQuiet, GoesOn, peerCounts
<1> QED BY <1>1, <1>2, <1>3, <1>4, <1>5, <1>6, <1>7, <1>8, <1>9, <1>10 DEF NearAction

-----------------------------------------------------------------------------
(* What each step does to the far side of a run.                           *)

FarQuiet == UNCHANGED <<tier, source, agreed, near, want, ended, started, stopped, mute, stale, writes>>

\* One payload is staged or rejected.
Handles(r) ==
  /\ far'[r].at = "stage" /\ far'[r].i = far[r].i + 1 /\ far[r].i <= Len(Order)
  /\ LET n == Order[far[r].i]
     IN  \/ ~Wanted(r, n) /\ far'[r].staged = far[r].staged /\ far'[r].bad = far[r].bad
         \/ /\ Wanted(r, n) /\ far'[r].bad = far[r].bad /\ parcel[r][n] # NoEntry
            /\ far'[r].staged = [far[r].staged EXCEPT ![n] = parcel[r][n].hash]
         \/ far'[r].staged = far[r].staged /\ far'[r].bad

\* The far side moves without a change to its root.
Moves(r) ==
  /\ UNCHANGED <<peer, parcel, put, seen>>
  /\ far[r].at \notin {"none"} \cup Over
  /\ \A q \in Run \ {r} : far'[q] = far[q]
  /\ \/ /\ far[r].at = "decode" /\ far'[r].at = "stage" /\ far'[r].i = far[r].i
        /\ far'[r].staged = far[r].staged /\ far'[r].bad = far[r].bad
     \/ far'[r].at \in {"failed", "dead"} /\ far'[r].staged = far[r].staged
     \/ far[r].at \in {"stage", "rebuild"} /\ Handles(r)
     \/ /\ far[r].at = "stage" /\ far'[r].at = "rebuild" /\ far'[r].i = far[r].i /\ far[r].i <= Len(Order)
        /\ Wanted(r, Order[far[r].i]) /\ far'[r].staged = far[r].staged /\ far'[r].bad = far[r].bad
     \/ /\ far[r].at = "stage" /\ far[r].i > Len(Order) /\ ~far[r].bad
        /\ far'[r].at = "apply" /\ far'[r].i = 1 /\ far'[r].staged = far[r].staged
     \/ /\ far[r].at = "apply" /\ far[r].i > Len(Order) /\ ~far[r].bad
        /\ far'[r].at = "done" /\ far'[r].staged = far[r].staged

\* One operation is published, fails, or is not there.
Publishes(r) ==
  /\ parcel' = parcel /\ far[r].at = "apply" /\ far'[r].at = "apply"
  /\ far'[r].i = far[r].i + 1 /\ far[r].i <= Len(Order) /\ far'[r].staged = far[r].staged
  /\ \A q \in Run \ {r} : far'[q] = far[q]
  /\ LET n == Order[far[r].i]
     IN  \/ /\ Wanted(r, n) /\ far'[r].bad = far[r].bad
            /\ peer' = [peer EXCEPT ![n] = far[r].staged[n]]
            /\ put' = [put EXCEPT ![r][n] = far[r].staged[n]]
            /\ seen' = [seen EXCEPT ![n] = @ \cup {far[r].staged[n]}]
         \/ far'[r].bad /\ UNCHANGED <<peer, put, seen>>
         \/ ~Wanted(r, n) /\ far'[r].bad = far[r].bad /\ UNCHANGED <<peer, put, seen>>

\* A payload of the package changes.
Damages(r) ==
  /\ UNCHANGED <<peer, put, seen, far>>
  /\ \E n \in Names, p \in Piece : parcel[r][n] # NoEntry /\ parcel' = [parcel EXCEPT ![r][n].data[1] = p]

LEMMA FarIs ==
  ASSUME Types, NEW r \in Run, NEW new, far' = [far EXCEPT ![r] = new]
  PROVE  far'[r] = new /\ \A q \in Run \ {r} : far'[q] = far[q]
BY DEF Types

LEMMA FarMoves ==
  ASSUME Types, Phases, Complete, NEW r \in Run, FarStep(r)
  PROVE  FarQuiet /\ (Moves(r) \/ Publishes(r) \/ Damages(r))
<1>0. far[r] \in FarType /\ far[r].i \in Nat /\ Len(Order) \in Nat /\ far \in [Run -> FarType]
  BY OrderNames DEF Types, FarType
<1>a. ASSUME NearAlone PROVE FarQuiet BY <1>a DEF NearAlone, nearVars, FarQuiet
<1>1. CASE Decode(r)
  <2>1. FarQuiet /\ UNCHANGED <<peer, parcel, put, seen>> /\ far[r].at = "decode" BY <1>1, <1>a DEF Decode
  <2>2. \/ far' = [far EXCEPT ![r] = [far[r] EXCEPT !.at = "stage"]]
        \/ far' = [far EXCEPT ![r] = [far[r] EXCEPT !.at = "failed"]]
    BY <1>1 DEF Decode, Bring
  <2>3. CASE far' = [far EXCEPT ![r] = [far[r] EXCEPT !.at = "stage"]]
    <3>1. far'[r] = [far[r] EXCEPT !.at = "stage"] /\ \A q \in Run \ {r} : far'[q] = far[q] BY <2>3, FarIs
    <3> QED BY <1>0, <2>1, <3>1 DEF Moves, FarType, Over
  <2>4. CASE far' = [far EXCEPT ![r] = [far[r] EXCEPT !.at = "failed"]]
    <3>1. far'[r] = [far[r] EXCEPT !.at = "failed"] /\ \A q \in Run \ {r} : far'[q] = far[q] BY <2>4, FarIs
    <3> QED BY <1>0, <2>1, <3>1 DEF Moves, FarType, Over
  <2> QED BY <2>2, <2>3, <2>4
<1>b. ASSUME far[r].at \in {"stage", "rebuild"}, far[r].i <= Len(Order), FarQuiet, UNCHANGED <<peer, parcel, put, seen>>,
             RejectFile(r) \/ (/\ Wanted(r, FileAt(r)) /\ parcel[r][FileAt(r)] # NoEntry
                               /\ KeepFile(r, parcel[r][FileAt(r)].hash))
      PROVE  Moves(r)
  <2>1. CASE RejectFile(r)
    <3>1. far' = [far EXCEPT ![r] = [far[r] EXCEPT !.at = "stage", !.i = far[r].i + 1, !.staged = far[r].staged, !.bad = TRUE]]
      BY <2>1 DEF RejectFile, NextFile, Bring
    <3>2. /\ far'[r] = [far[r] EXCEPT !.at = "stage", !.i = far[r].i + 1, !.staged = far[r].staged, !.bad = TRUE]
          /\ \A q \in Run \ {r} : far'[q] = far[q]
      BY <3>1, FarIs
    <3> QED BY <1>0, <1>b, <3>2 DEF Moves, FarType, Over, Handles
  <2>2. CASE /\ Wanted(r, FileAt(r)) /\ parcel[r][FileAt(r)] # NoEntry /\ KeepFile(r, parcel[r][FileAt(r)].hash)
    <3> DEFINE s == [far[r].staged EXCEPT ![FileAt(r)] = parcel[r][FileAt(r)].hash]
    <3>1. far' = [far EXCEPT ![r] = [far[r] EXCEPT !.at = "stage", !.i = far[r].i + 1, !.staged = s, !.bad = far[r].bad]]
      BY <2>2 DEF KeepFile, NextFile, Bring
    <3> HIDE DEF s
    <3>2. /\ far'[r] = [far[r] EXCEPT !.at = "stage", !.i = far[r].i + 1, !.staged = s, !.bad = far[r].bad]
          /\ \A q \in Run \ {r} : far'[q] = far[q]
      BY <3>1, FarIs
    <3>3. far'[r].at = "stage" /\ far'[r].i = far[r].i + 1 /\ far'[r].staged = s /\ far'[r].bad = far[r].bad
      BY <1>0, <3>2 DEF FarType
    <3>4. Handles(r) BY <1>b, <2>2, <3>3 DEF Handles, FileAt, s
    <3> QED BY <1>b, <3>2, <3>4 DEF Moves, Over
  <2> QED BY <1>b, <2>1, <2>2
<1>2. CASE Stage(r)
  <2>1. FarQuiet /\ UNCHANGED <<peer, parcel, put, seen>> /\ far[r].at = "stage" /\ far[r].i <= Len(Order)
    BY <1>2, <1>a DEF Stage
  <2> DEFINE n == FileAt(r)
             e == parcel[r][n]
  <2>2. n \in Names BY <1>0, <2>1, OrderNames DEF FileAt, FarType
  <2>3. CASE ~Wanted(r, n)
    <3>1. far' = [far EXCEPT ![r] = [far[r] EXCEPT !.i = @ + 1]] BY <1>2, <2>3 DEF Stage, Bring
    <3>2. far'[r] = [far[r] EXCEPT !.i = @ + 1] /\ \A q \in Run \ {r} : far'[q] = far[q] BY <3>1, FarIs
    <3>3. Handles(r) BY <1>0, <2>1, <2>3, <3>2 DEF Handles, FileAt, FarType
    <3> QED BY <2>1, <3>2, <3>3 DEF Moves, Over
  <2>4. CASE Wanted(r, n)
    <3>1. e # NoEntry BY <2>1, <2>2, <2>4 DEF Complete, RunOps
    <3>2. e.kind \in {"whole", "delta"} BY <2>2, <3>1 DEF Types, IsEntry
    <3>3. \/ RejectFile(r)
          \/ e.data = e.hash /\ KeepFile(r, e.data)
          \/ Bring(r, [far[r] EXCEPT !.at = "rebuild"])
      BY <1>2, <2>4, <3>2 DEF Stage
    <3>4. CASE RejectFile(r) BY <1>b, <2>1, <3>4
    <3>5. CASE e.data = e.hash /\ KeepFile(r, e.data) BY <1>b, <2>1, <2>4, <3>1, <3>5
    <3>6. CASE Bring(r, [far[r] EXCEPT !.at = "rebuild"])
      <4>1. far'[r] = [far[r] EXCEPT !.at = "rebuild"] /\ \A q \in Run \ {r} : far'[q] = far[q]
        BY <3>6, FarIs DEF Bring
      <4> QED BY <1>0, <2>1, <2>4, <4>1 DEF Moves, FarType, Over, FileAt
    <3> QED BY <2>1, <3>3, <3>4, <3>5, <3>6
  <2> QED BY <2>3, <2>4
<1>3. CASE Rebuild(r)
  <2>1. FarQuiet /\ UNCHANGED <<peer, parcel, put, seen>> /\ far[r].at = "rebuild" BY <1>3, <1>a DEF Rebuild
  <2>2. far[r].i <= Len(Order) /\ Wanted(r, FileAt(r)) BY <2>1 DEF Complete, FileAt
  <2>3. FileAt(r) \in Names BY <1>0, <2>2, OrderNames DEF FileAt, FarType
  <2>4. parcel[r][FileAt(r)] # NoEntry BY <2>1, <2>2, <2>3 DEF Complete, RunOps
  <2>5. KeepFile(r, parcel[r][FileAt(r)].hash) \/ RejectFile(r) BY <1>3 DEF Rebuild
  <2> QED BY <1>b, <2>1, <2>2, <2>4, <2>5
<1>4. CASE Staged(r)
  <2>1. FarQuiet /\ UNCHANGED <<peer, parcel, put, seen>> /\ far[r].at = "stage" /\ far[r].i > Len(Order)
    BY <1>4, <1>a DEF Staged
  <2>2. \/ far' = [far EXCEPT ![r] = [far[r] EXCEPT !.i = 1, !.bad = FALSE, !.at = "failed"]]
        \/ ~far[r].bad /\ far' = [far EXCEPT ![r] = [far[r] EXCEPT !.i = 1, !.bad = FALSE, !.at = "apply"]]
    BY <1>4 DEF Staged, Bring
  <2>3. CASE far' = [far EXCEPT ![r] = [far[r] EXCEPT !.i = 1, !.bad = FALSE, !.at = "failed"]]
    <3>1. far'[r] = [far[r] EXCEPT !.i = 1, !.bad = FALSE, !.at = "failed"] /\ \A q \in Run \ {r} : far'[q] = far[q]
      BY <2>3, FarIs
    <3> QED BY <1>0, <2>1, <3>1 DEF Moves, FarType, Over
  <2>4. CASE ~far[r].bad /\ far' = [far EXCEPT ![r] = [far[r] EXCEPT !.i = 1, !.bad = FALSE, !.at = "apply"]]
    <3>1. far'[r] = [far[r] EXCEPT !.i = 1, !.bad = FALSE, !.at = "apply"] /\ \A q \in Run \ {r} : far'[q] = far[q]
      BY <2>4, FarIs
    <3> QED BY <1>0, <2>1, <2>4, <3>1 DEF Moves, FarType, Over
  <2> QED BY <2>2, <2>3, <2>4
<1>5. CASE FinishPack(r)
  <2>1. FarQuiet /\ UNCHANGED <<peer, parcel, put, seen>> /\ far[r].at = "apply" /\ far[r].i > Len(Order)
    BY <1>5, <1>a DEF FinishPack
  <2>2. far'[r] = [far[r] EXCEPT !.at = IF far[r].bad THEN "failed" ELSE "done"] /\ \A q \in Run \ {r} : far'[q] = far[q]
    BY <1>5, FarIs DEF FinishPack, Bring
  <2>3. far[r].bad \in BOOLEAN BY <1>0 DEF FarType
  <2>4. CASE far[r].bad BY <1>0, <2>1, <2>2, <2>4 DEF Moves, FarType, Over
  <2>5. CASE ~far[r].bad BY <1>0, <2>1, <2>2, <2>5 DEF Moves, FarType, Over
  <2> QED BY <2>4, <2>5
<1>6. CASE Dies(r)
  <2>1. FarQuiet /\ UNCHANGED <<peer, parcel, put, seen>> /\ far[r].at \notin Over \cup {"none"}
    BY <1>6, <1>a DEF Dies
  <2>2. far'[r] = [far[r] EXCEPT !.at = "dead"] /\ \A q \in Run \ {r} : far'[q] = far[q]
    BY <1>6, FarIs DEF Dies, Bring
  <2> QED BY <1>0, <2>1, <2>2 DEF Moves, FarType
<1>7. CASE PublishFile(r)
  <2>1. FarQuiet /\ parcel' = parcel /\ far[r].at = "apply" /\ far[r].i <= Len(Order)
    BY <1>7, <1>a DEF PublishFile
  <2> DEFINE n == Order[far[r].i]
             new == far[r].staged[n]
  <2>2. \/ /\ Wanted(r, n) /\ far' = [far EXCEPT ![r] = [far[r] EXCEPT !.i = @ + 1]]
           /\ peer' = [peer EXCEPT ![n] = new] /\ put' = [put EXCEPT ![r][n] = new]
           /\ seen' = [seen EXCEPT ![n] = @ \cup {new}]
        \/ /\ far' = [far EXCEPT ![r] = [far[r] EXCEPT !.i = @ + 1, !.bad = TRUE]] /\ UNCHANGED <<peer, put, seen>>
        \/ /\ ~Wanted(r, n) /\ far' = [far EXCEPT ![r] = [far[r] EXCEPT !.i = @ + 1]] /\ UNCHANGED <<peer, put, seen>>
    BY <1>7 DEF PublishFile, FileAt, Bring
  <2>3. CASE far' = [far EXCEPT ![r] = [far[r] EXCEPT !.i = @ + 1]]
    <3>1. far'[r] = [far[r] EXCEPT !.i = @ + 1] /\ \A q \in Run \ {r} : far'[q] = far[q] BY <2>3, FarIs
    <3>2. /\ far'[r].at = "apply" /\ far'[r].i = far[r].i + 1 /\ far'[r].staged = far[r].staged /\ far'[r].bad = far[r].bad
      BY <1>0, <2>1, <3>1 DEF FarType
    <3>3. \/ /\ Wanted(r, n) /\ peer' = [peer EXCEPT ![n] = new] /\ put' = [put EXCEPT ![r][n] = new]
             /\ seen' = [seen EXCEPT ![n] = @ \cup {new}]
          \/ far'[r].bad /\ UNCHANGED <<peer, put, seen>>
          \/ ~Wanted(r, n) /\ UNCHANGED <<peer, put, seen>>
      <4>1. CASE far' = [far EXCEPT ![r] = [far[r] EXCEPT !.i = @ + 1, !.bad = TRUE]]
        <5>1. far'[r] = [far[r] EXCEPT !.i = @ + 1, !.bad = TRUE] BY <4>1, FarIs
        <5>2. far'[r].bad BY <1>0, <5>1 DEF FarType
        <5> QED BY <2>2, <5>2
      <4> QED BY <2>2, <4>1
    <3> QED BY <2>1, <3>1, <3>2, <3>3 DEF Publishes
  <2>4. CASE far' = [far EXCEPT ![r] = [far[r] EXCEPT !.i = @ + 1, !.bad = TRUE]] /\ UNCHANGED <<peer, put, seen>>
    <3>1. far'[r] = [far[r] EXCEPT !.i = @ + 1, !.bad = TRUE] /\ \A q \in Run \ {r} : far'[q] = far[q] BY <2>4, FarIs
    <3> QED BY <1>0, <2>1, <2>4, <3>1 DEF Publishes, FarType
  <2> QED BY <2>2, <2>3, <2>4
<1>8. CASE Damage(r)
  <2>1. FarQuiet /\ UNCHANGED <<peer, put, seen, far>> /\ far[r].at \in {"decode", "stage"} BY <1>8, <1>a DEF Damage
  <2>2. PICK i \in far[r].i .. Len(Order), p \in Piece :
          Wanted(r, Order[i]) /\ parcel' = [parcel EXCEPT ![r][Order[i]].data[1] = p]
    BY <1>8 DEF Damage
  <2>3. Order[i] \in Names BY <1>0, OrderNames DEF FarType
  <2>4. parcel[r][Order[i]] # NoEntry BY <2>1, <2>2, <2>3 DEF Complete, RunOps
  <2> QED BY <2>1, <2>2, <2>3, <2>4 DEF Damages
<1> QED BY <1>1, <1>2, <1>3, <1>4, <1>5, <1>6, <1>7, <1>8 DEF FarStep
-----------------------------------------------------------------------------
(* Every step keeps the types.                                             *)

LEMMA NearTypes ==
  ASSUME Types, Phases, NearStep
  PROVE  near' \in NearType
<1>0. near \in NearType /\ Len(Order) \in Nat /\ near.i \in Nat BY OrderNames DEF Types, NearType
<1>1. \A at \in {"idle", "wait", "refresh"} \cup Preparing : [near EXCEPT !.at = at] \in NearType
  BY <1>0 DEF NearType
<1>2. [Rest EXCEPT !.run = near.run] \in NearType
  <2>1. << >> \in Seq(Piece) /\ 1 \in 1..(Len(Order) + 1) BY <1>0
  <2> QED BY <1>0, <2>1 DEF Rest, NearType
<1>e. ASSUME NEW how, EndRun(how) PROVE near' \in NearType BY <1>2, <1>e DEF EndRun, ThisRun
<1>3. CASE ComparePeer
  <2>1. << >> \in Seq(Piece) /\ 1 \in 1..(Len(Order) + 1) /\ near.run + 1 \in 0..Runs
    BY <1>0, <1>3 DEF ComparePeer, ThisRun, NearType
  <2>2. near' = [Rest EXCEPT !.at = "table", !.run = near.run + 1] BY <1>3 DEF ComparePeer, ThisRun
  <2> QED BY <2>1, <2>2 DEF Rest, NearType, Preparing
<1>4. CASE Table
  <2>1. {<<n, peer[n]>> : n \in Asked} \in SUBSET (Names \X (Data \cup {Gone}))
    BY DEF Types, Asked, RunOps
  <2>2. near' = [near EXCEPT !.at = "open", !.table = {<<n, peer[n]>> : n \in Asked}] \/ Go("open")
    BY <1>4 DEF Table
  <2>3. CASE near' = [near EXCEPT !.at = "open", !.table = {<<n, peer[n]>> : n \in Asked}]
    <3> DEFINE t == {<<n, peer[n]>> : n \in Asked}
    <3>1. t \in SUBSET (Names \X (Data \cup {Gone})) /\ near' = [near EXCEPT !.at = "open", !.table = t]
      BY <2>1, <2>3
    <3> HIDE DEF t
    <3> QED BY <1>0, <3>1 DEF NearType, Preparing, Packing
  <2> QED BY <1>1, <2>2, <2>3 DEF Go, Preparing, Packing
<1>5. CASE StopsEarly BY <1>5, <1>e DEF StopsEarly
<1>6. CASE Open
  <2>1. CASE near.i > Len(Order) BY <1>1, <1>6, <2>1 DEF Open, Go, Preparing
  <2>2. CASE near.i <= Len(Order) /\ ~Wanted(ThisRun, Name)
    <3>1. near' = [near EXCEPT !.i = near.i + 1] BY <1>0, <1>6, <2>2 DEF Open
    <3>2. near.i + 1 \in 1..(Len(Order) + 1) BY <1>0, <2>2
    <3> QED BY <1>0, <3>1, <3>2 DEF NearType, Preparing, Packing
  <2>3. CASE near.i <= Len(Order) /\ Wanted(ThisRun, Name)
    <3>1. near' = [near EXCEPT !.at = "first", !.size = Len(source[Name].data),
                               !.mtime = source[Name].mtime, !.read = << >>]
      BY <1>0, <1>6, <2>3 DEF Open
    <3>2. Name \in Names BY <1>0, <2>3, OrderNames DEF Name, NearType
    <3>3. source[Name].data \in Data /\ source[Name].mtime \in Nat BY <3>2 DEF Types
    <3>4. Len(source[Name].data) \in Nat BY <3>3, DataIsSeq
    <3>5. << >> \in Seq(Piece) OBVIOUS
    <3> QED BY <1>0, <3>1, <3>3, <3>4, <3>5 DEF NearType, Preparing, Packing
  <2> QED BY <1>0, <2>1, <2>2, <2>3
<1>n. ASSUME near.at \in {"first", "second"} PROVE Name \in Names /\ near.i <= Len(Order)
  BY <1>0, <1>n, OrderNames DEF Phases, Name, NearType
<1>7. CASE ReadPiece
  <2>1. Name \in Names BY <1>7, <1>n DEF ReadPiece
  <2>2. source[Name].data \in Seq(Piece) BY <2>1, DataIsSeq DEF Types
  <2>3. near.read \in Seq(Piece) /\ Len(near.read) \in Nat BY <1>0, LenProperties DEF NearType
  <2>4. Len(near.read) + 1 \in 1..Len(source[Name].data) BY <1>7, <2>2, <2>3 DEF ReadPiece, More
  <2>5. source[Name].data[Len(near.read) + 1] \in Piece BY <2>2, <2>4
  <2>6. Append(near.read, source[Name].data[Len(near.read) + 1]) \in Seq(Piece) BY <2>3, <2>5
  <2>7. near' = [near EXCEPT !.read = Append(near.read, source[Name].data[Len(near.read) + 1])]
    BY <1>7 DEF ReadPiece
  <2> QED BY <1>0, <2>6, <2>7 DEF NearType
<1>p. ASSUME near.at \in {"first", "second"}, NEW e, Packed(e) PROVE near' \in NearType
  <2>1. near.i + 1 \in 1..(Len(Order) + 1) BY <1>0, <1>n, <1>p
  <2> QED BY <1>0, <1>p, <2>1 DEF Packed, NearType, Preparing, Packing
<1>8. CASE FirstOver
  <2>1. CASE EndRun("error") BY <1>e, <2>1
  <2>2. CASE \E e : Packed(e) BY <1>8, <1>p, <2>2 DEF FirstOver
  <2>3. CASE near' = [near EXCEPT !.at = "second", !.first = near.read, !.read = << >>]
    <3>1. << >> \in Seq(Piece) OBVIOUS
    <3> QED BY <1>0, <2>3, <3>1 DEF NearType, Preparing, Packing
  <2> QED BY <1>8, <2>1, <2>2, <2>3 DEF FirstOver
<1>9. CASE SecondOver
  <2>1. CASE EndRun("error") BY <1>e, <2>1
  <2>2. CASE \E e : Packed(e) BY <1>9, <1>p, <2>2 DEF SecondOver
  <2> QED BY <1>9, <2>1, <2>2 DEF SecondOver
<1>10. CASE Ship BY <1>1, <1>10, <1>e DEF Ship, Go, Preparing
<1>11. CASE Launch BY <1>1, <1>11 DEF Launch, Go
<1>12. CASE Answered BY <1>1, <1>12, <1>e DEF Answered, Go
<1>13. CASE AnswerLost BY <1>13, <1>e DEF AnswerLost
<1>14. CASE Refresh BY <1>14, <1>e DEF Refresh
<1>15. CASE StopRun BY <1>0, <1>15 DEF StopRun
<1> QED BY <1>3, <1>4, <1>5, <1>6, <1>7, <1>8, <1>9, <1>10, <1>11, <1>12, <1>13, <1>14, <1>15 DEF NearStep

LEMMA FarTypes ==
  ASSUME Types, Phases, Complete, NEW r \in Run, FarStep(r)
  PROVE  far' \in [Run -> FarType]
<1>0. far[r] \in FarType /\ far[r].i \in Nat /\ Len(Order) \in Nat /\ far \in [Run -> FarType]
  BY OrderNames DEF Types, FarType
<1>b. ASSUME NEW new \in FarType, Bring(r, new) PROVE far' \in [Run -> FarType]
  BY <1>0, <1>b DEF Bring
<1>1. \A at \in {"none", "decode", "stage", "rebuild", "apply"} \cup Over, b \in BOOLEAN :
        /\ [far[r] EXCEPT !.at = at] \in FarType
        /\ [far[r] EXCEPT !.i = 1, !.bad = b, !.at = at] \in FarType
        /\ far[r].i <= Len(Order) => [far[r] EXCEPT !.i = far[r].i + 1] \in FarType
        /\ far[r].i <= Len(Order) => [far[r] EXCEPT !.i = far[r].i + 1, !.bad = b] \in FarType
  <2>1. 1 \in 1..(Len(Order) + 1) /\ (far[r].i <= Len(Order) => far[r].i + 1 \in 1..(Len(Order) + 1))
    BY <1>0
  <2>2. \A at \in {"none", "decode", "stage", "rebuild", "apply"} \cup Over, b \in BOOLEAN,
           i \in 1..(Len(Order) + 1) :
          /\ [far[r] EXCEPT !.at = at] \in FarType
          /\ [far[r] EXCEPT !.i = i, !.bad = b, !.at = at] \in FarType
          /\ [far[r] EXCEPT !.i = i] \in FarType
          /\ [far[r] EXCEPT !.i = i, !.bad = b] \in FarType
    BY <1>0 DEF FarType, Over
  <2> QED BY <2>1, <2>2
<1>k. ASSUME far[r].i <= Len(Order), NEW d \in Data, KeepFile(r, d) \/ RejectFile(r)
      PROVE  far' \in [Run -> FarType]
  <2>1. \A s \in [Names -> Data \cup {Gone}], b \in BOOLEAN :
          [far[r] EXCEPT !.at = "stage", !.i = far[r].i + 1, !.staged = s, !.bad = b] \in FarType
    <3>1. far[r].i + 1 \in 1..(Len(Order) + 1) BY <1>0, <1>k
    <3> QED BY <1>0, <3>1 DEF FarType, Over
  <2>2. far[r].staged \in [Names -> Data \cup {Gone}] /\ far[r].bad \in BOOLEAN BY <1>0 DEF FarType
  <2>3. [far[r].staged EXCEPT ![FileAt(r)] = d] \in [Names -> Data \cup {Gone}] BY <2>2
  <2>4. CASE RejectFile(r)
    BY <1>b, <2>1, <2>2, <2>4 DEF RejectFile, NextFile
  <2>5. CASE KeepFile(r, d)
    BY <1>b, <2>1, <2>2, <2>3, <2>5 DEF KeepFile, NextFile
  <2> QED BY <1>k, <2>4, <2>5
<1>2. CASE Decode(r) BY <1>1, <1>2, <1>b DEF Decode, Over
<1>3. CASE Stage(r)
  <2>1. far[r].at = "stage" /\ far[r].i <= Len(Order) BY <1>3 DEF Stage
  <2>2. FileAt(r) \in Names BY <1>0, <2>1, OrderNames DEF FileAt, FarType
  <2>3. Wanted(r, FileAt(r)) => IsEntry(parcel[r][FileAt(r)]) BY <2>1, <2>2 DEF Complete, RunOps, Types
  <2>4. \/ Bring(r, [far[r] EXCEPT !.i = far[r].i + 1])
        \/ Wanted(r, FileAt(r)) /\ RejectFile(r)
        \/ Wanted(r, FileAt(r)) /\ KeepFile(r, parcel[r][FileAt(r)].hash)
        \/ Bring(r, [far[r] EXCEPT !.at = "rebuild"])
    BY <1>3, <2>3 DEF Stage, IsEntry
  <2>5. CASE Wanted(r, FileAt(r)) /\ (RejectFile(r) \/ KeepFile(r, parcel[r][FileAt(r)].hash))
    BY <1>k, <2>1, <2>3, <2>5 DEF IsEntry
  <2> QED BY <1>1, <1>b, <2>1, <2>4, <2>5
<1>4. CASE Rebuild(r)
  <2>1. far[r].at = "rebuild" /\ far[r].i <= Len(Order) /\ Wanted(r, FileAt(r))
    BY <1>4 DEF Rebuild, Complete, FileAt
  <2>2. FileAt(r) \in Names BY <1>0, <2>1, OrderNames DEF FileAt, FarType
  <2>3. IsEntry(parcel[r][FileAt(r)]) BY <2>1, <2>2 DEF Complete, RunOps, Types
  <2>4. KeepFile(r, parcel[r][FileAt(r)].hash) \/ RejectFile(r) BY <1>4 DEF Rebuild
  <2> QED BY <1>k, <2>1, <2>3, <2>4 DEF IsEntry
<1>5. CASE Staged(r) BY <1>1, <1>5, <1>b DEF Staged, Over
<1>6. CASE PublishFile(r)
  <2>1. far[r].i <= Len(Order) /\ (\/ Bring(r, [far[r] EXCEPT !.i = far[r].i + 1])
                                   \/ Bring(r, [far[r] EXCEPT !.i = far[r].i + 1, !.bad = TRUE]))
    BY <1>6 DEF PublishFile
  <2> QED BY <1>1, <1>b, <2>1
<1>7. CASE FinishPack(r) BY <1>1, <1>7, <1>b DEF FinishPack, Over
<1>8. CASE Dies(r) BY <1>1, <1>8, <1>b DEF Dies, Over
<1>9. CASE Damage(r) BY <1>0, <1>9 DEF Damage
<1> QED BY <1>2, <1>3, <1>4, <1>5, <1>6, <1>7, <1>8, <1>9 DEF FarStep

\* What is put into the package is the content of a file, and agrees with the plan.
LEMMA EntryIsHonest ==
  ASSUME Types, Phases, Honest, NearQuiet, Packs
  PROVE  \E e : /\ IsEntry(e) /\ parcel' = [parcel EXCEPT ![near.run][Name] = e]
                /\ Matches(e.hash, want[near.run][Name])
                /\ \/ near.at = "first" /\ e.hash = near.read /\ ~More
                   \/ near.at = "second" /\ e.hash = near.first
<1>1. PICK e : /\ parcel' = [parcel EXCEPT ![near.run][Name] = e]
               /\ "kind" \in DOMAIN e /\ "hash" \in DOMAIN e /\ e.kind \in {"whole", "delta"}
               /\ \/ near.at = "first" /\ e.hash = near.read /\ ~More /\ Matches(near.read, want[near.run][Name])
                  \/ near.at = "second" /\ e.hash = near.first
  BY DEF Packs
<1>2. near.at \in {"first", "second"} /\ near.read \in Seq(Piece) BY DEF Packs, Types, NearType
<1>3. /\ near.run \in Run /\ near.i \in 1..Len(Order) /\ Wanted(near.run, Name)
  <2>1. near.run \in 0..Runs /\ near.i \in 1..(Len(Order) + 1) BY DEF Types, NearType
  <2>2. near.run # 0 /\ near.i <= Len(Order) /\ Wanted(near.run, Name) BY <1>2 DEF Phases
  <2>3. near.run \in Run BY <2>1, <2>2, RunFacts
  <2>4. near.i \in 1..Len(Order) BY <2>1, <2>2, OrderNames
  <2> QED BY <2>2, <2>3, <2>4
<1>4. Name \in Names BY <1>3, OrderNames DEF Name
<1>5. want[near.run][Name].data \in Data BY <1>3, <1>4 DEF Types, Wanted
<1>6. e.hash \in Data /\ Matches(e.hash, want[near.run][Name])
  <2>1. CASE near.at = "first" /\ e.hash = near.read /\ Matches(near.read, want[near.run][Name])
    <3>1. near.read \in Data BY <1>2, <1>5, <2>1, MatchesIsData
    <3> QED BY <2>1, <3>1
  <2>2. CASE near.at = "second" /\ e.hash = near.first BY <2>2 DEF Honest
  <2> QED BY <1>1, <2>1, <2>2
<1> QED BY <1>1, <1>6 DEF IsEntry

LEMMA CountTypes ==
  ASSUME Types, PeerNext
  PROVE  stopped' \in BOOLEAN /\ troubles' \in Nat /\ tier' = tier
<1>1. CASE NearStep
  <2>1. stopped \in BOOLEAN /\ troubles \in Nat BY DEF Types
  <2>2. CASE ComparePeer BY <2>1, <2>2 DEF ComparePeer, peerCounts
  <2>3. CASE Table \/ StopsEarly \/ Ship \/ Refresh
    BY <2>1, <2>3 DEF Table, StopsEarly, Ship, Refresh, Trouble
  <2>4. CASE Open \/ ReadPiece \/ FirstOver \/ SecondOver
    BY <2>1, <2>4 DEF Open, ReadPiece, FirstOver, SecondOver, PackStep
  <2>5. CASE Launch \/ Answered BY <2>1, <2>5 DEF Launch, Answered, peerCounts
  <2>6. CASE AnswerLost BY <2>1, <2>6 DEF AnswerLost, Trouble
  <2>7. CASE StopRun BY <2>1, <2>7 DEF StopRun, peerCounts
  <2> QED BY <1>1, <2>2, <2>3, <2>4, <2>5, <2>6, <2>7 DEF NearStep
<1>2. CASE \E r \in Run : FarStep(r)
  BY <1>2 DEF FarStep, Decode, Stage, Rebuild, Staged, PublishFile, FinishPack, Dies, Damage, NearAlone, nearVars,
     Trouble, Types
<1>3. CASE \E n \in Names : WriteHere(n) \/ WriteThere(n)
  BY <1>3 DEF WriteHere, WriteThere, nearVars, Types
<1> QED BY <1>1, <1>2, <1>3 DEF PeerNext

LEMMA TypesStep ==
  ASSUME Inv, PeerNext
  PROVE  Types'
<1>0. Types /\ Phases /\ Honest /\ Complete BY DEF Inv
<1>c. stopped' \in BOOLEAN /\ troubles' \in Nat /\ tier' = tier BY <1>0, CountTypes
<1>n. ASSUME NearStep PROVE near' \in NearType BY <1>0, <1>n, NearTypes
<1>e. ASSUME NEW how \in {"clean", "errors", "error", "cancelled"},
             ended' = [ended EXCEPT ![near.run] = [how |-> how, writes |-> started]]
      PROVE  ended' \in [Run -> [how : {"no", "clean", "errors", "error", "cancelled"}, writes : BOOLEAN]]
  BY <1>0, <1>e DEF Types
<1>s. \A n \in Names : source[n].data \in Data BY <1>0 DEF Types
<1>1. CASE NearAction
  <2>1. NearQuiet /\ (GoesOn \/ Packs \/ \E how : Ends(how)) BY <1>0, <1>1, NearMoves
  <2>2. near' \in NearType BY <1>1, <1>n DEF NearAction, NearStep
  <2>3. CASE GoesOn BY <1>0, <1>c, <2>1, <2>2, <2>3 DEF NearQuiet, GoesOn, Types
  <2>4. CASE Packs
    <3>1. PICK e : IsEntry(e) /\ parcel' = [parcel EXCEPT ![near.run][Name] = e]
      BY <1>0, <2>1, <2>4, EntryIsHonest
    <3>2. /\ DOMAIN parcel' = Run /\ \A r \in Run : DOMAIN parcel'[r] = Names
          /\ \A r \in Run, n \in Names : parcel'[r][n] = NoEntry \/ IsEntry(parcel'[r][n])
      BY <1>0, <3>1 DEF Types
    <3> QED BY <1>0, <1>c, <2>1, <2>2, <2>4, <3>2 DEF NearQuiet, Packs, Types
  <2>5. CASE \E how : Ends(how)
    <3>1. PICK how : Ends(how) BY <2>5
    <3>2. ended' \in [Run -> [how : {"no", "clean", "errors", "error", "cancelled"}, writes : BOOLEAN]]
      BY <1>e, <3>1 DEF Ends
    <3>3. agreed' = agreed \/ agreed' = [n \in Names |-> source[n].data] BY <3>1 DEF Ends
    <3>4. agreed' \in [Names -> Data \cup {Gone}] BY <1>0, <1>s, <3>3 DEF Types
    <3> QED BY <1>0, <1>c, <2>1, <2>2, <3>1, <3>2, <3>4 DEF NearQuiet, Ends, Types
  <2> QED BY <2>1, <2>3, <2>4, <2>5
<1>2. CASE ComparePeer
  <2>1. near' \in NearType BY <1>2, <1>n DEF NearStep
  <2>2. /\ started' = FALSE /\ stale' = {}
        /\ UNCHANGED <<source, peer, agreed, parcel, far, put, ended, mute, seen, writes>>
    BY <1>2 DEF ComparePeer, peerCounts
  <2>3. \A n \in Names : source[n] \in [data : Data \cup {Gone}, mtime : Nat] BY <1>0 DEF Types
  <2>4. want' \in [Run -> [Names -> [data : Data \cup {Gone}, mtime : Nat]]]
    <3> DEFINE w == [n \in Names |-> IF peer[n] # source[n].data THEN source[n] ELSE [data |-> Gone, mtime |-> 0]]
    <3>1. w \in [Names -> [data : Data \cup {Gone}, mtime : Nat]] BY <2>3
    <3>2. want' = [want EXCEPT ![near.run + 1] = w] BY <1>2 DEF ComparePeer, ThisRun
    <3> HIDE DEF w
    <3> QED BY <1>0, <3>1, <3>2 DEF Types
  <2> QED BY <1>0, <1>c, <2>1, <2>2, <2>4 DEF Types
<1>3. CASE Launch
  <2>1. near' \in NearType BY <1>3, <1>n DEF NearStep
  <2>2. far' \in [Run -> FarType]
    <3>1. far \in [Run -> FarType] /\ far' = [far EXCEPT ![ThisRun].at = "decode"] BY <1>0, <1>3 DEF Launch, Types
    <3>2. CASE ThisRun \in Run
      <4>1. [far[ThisRun] EXCEPT !.at = "decode"] \in FarType BY <3>1, <3>2 DEF FarType, Over
      <4> QED BY <3>1, <3>2, <4>1
    <3>3. CASE ThisRun \notin Run BY <3>1, <3>3
    <3> QED BY <3>2, <3>3
  <2> QED BY <1>0, <1>3, <1>c, <2>1, <2>2 DEF Launch, Types, peerCounts
<1>4. CASE AnswerLost
  <2>1. near' \in NearType BY <1>4, <1>n DEF NearStep
  <2>2. ended' \in [Run -> [how : {"no", "clean", "errors", "error", "cancelled"}, writes : BOOLEAN]]
    BY <1>4, <1>e DEF AnswerLost, EndRun, ThisRun
  <2>3. near.run \in Run
    BY <1>0, <1>4, RunFacts DEF AnswerLost, Phases, Types, NearType
  <2> QED BY <1>0, <1>4, <1>c, <2>1, <2>2, <2>3 DEF AnswerLost, Types, ThisRun
<1>5. CASE \E r \in Run : FarStep(r)
  <2>1. PICK r \in Run : FarStep(r) BY <1>5
  <2>2. FarQuiet /\ (Moves(r) \/ Publishes(r) \/ Damages(r)) BY <1>0, <2>1, FarMoves
  <2>3. far' \in [Run -> FarType] BY <1>0, <2>1, FarTypes
  <2>4. CASE Moves(r) BY <1>0, <1>c, <2>2, <2>3, <2>4 DEF FarQuiet, Moves, Types
  <2>5. CASE Publishes(r)
    <3> DEFINE n == Order[far[r].i]
               new == far[r].staged[n]
    <3>1. n \in Names /\ new \in Data \cup {Gone}
      <4>1. far[r] \in FarType BY <1>0 DEF Types
      <4>2. far[r].i \in 1..Len(Order) BY <2>5, <4>1, OrderNames DEF Publishes, FarType
      <4> QED BY <4>1, <4>2, OrderNames DEF FarType
    <3>2. \/ /\ peer' = [peer EXCEPT ![n] = new] /\ put' = [put EXCEPT ![r][n] = new]
             /\ seen' = [seen EXCEPT ![n] = @ \cup {new}]
          \/ UNCHANGED <<peer, put, seen>>
      BY <2>5 DEF Publishes
    <3> HIDE DEF n, new
    <3>3. peer' \in [Names -> Data \cup {Gone}] /\ put' \in [Run -> [Names -> Data \cup {Gone}]] /\ DOMAIN seen' = Names
      <4>1. CASE UNCHANGED <<peer, put, seen>> BY <1>0, <4>1 DEF Types
      <4>2. CASE /\ peer' = [peer EXCEPT ![n] = new] /\ put' = [put EXCEPT ![r][n] = new]
                 /\ seen' = [seen EXCEPT ![n] = @ \cup {new}]
        <5>1. peer' \in [Names -> Data \cup {Gone}] /\ DOMAIN seen' = Names BY <1>0, <3>1, <4>2 DEF Types
        <5>2. put[r] \in [Names -> Data \cup {Gone}] BY <1>0 DEF Types
        <5>3. [put[r] EXCEPT ![n] = new] \in [Names -> Data \cup {Gone}] BY <3>1, <5>2
        <5>4. put' = [put EXCEPT ![r] = [put[r] EXCEPT ![n] = new]] BY <4>2
        <5>5. put' \in [Run -> [Names -> Data \cup {Gone}]] BY <1>0, <5>3, <5>4 DEF Types
        <5> QED BY <5>1, <5>5
      <4> QED BY <3>2, <4>1, <4>2
    <3> QED BY <1>0, <1>c, <2>2, <2>3, <2>5, <3>3 DEF FarQuiet, Publishes, Types
  <2>6. CASE Damages(r)
    <3>1. PICK n \in Names, p \in Piece : parcel[r][n] # NoEntry /\ parcel' = [parcel EXCEPT ![r][n].data[1] = p]
      BY <2>6 DEF Damages
    <3>2. IsEntry(parcel[r][n]) BY <1>0, <3>1 DEF Types
    <3>3. IsEntry(parcel'[r][n]) /\ DOMAIN parcel' = Run /\ DOMAIN parcel'[r] = Names
      BY <1>0, <3>1, <3>2 DEF Types, IsEntry
    <3>4. \A q \in Run, m \in Names : (q # r \/ m # n) => parcel'[q][m] = parcel[q][m]
      BY <1>0, <3>1 DEF Types
    <3>5. \A q \in Run : DOMAIN parcel'[q] = Names BY <1>0, <3>1 DEF Types
    <3>6. \A q \in Run, m \in Names : parcel'[q][m] = NoEntry \/ IsEntry(parcel'[q][m])
      <4> SUFFICES ASSUME NEW q \in Run, NEW m \in Names PROVE parcel'[q][m] = NoEntry \/ IsEntry(parcel'[q][m])
        OBVIOUS
      <4>1. CASE q = r /\ m = n BY <3>3, <4>1
      <4>2. CASE q # r \/ m # n
        <5>1. parcel[q][m] = NoEntry \/ IsEntry(parcel[q][m]) BY <1>0 DEF Types
        <5>2. parcel'[q][m] = parcel[q][m] BY <3>4, <4>2
        <5> QED BY <5>1, <5>2
      <4> QED BY <4>1, <4>2
    <3> QED BY <1>0, <1>c, <2>2, <2>3, <2>6, <3>3, <3>5, <3>6 DEF FarQuiet, Damages, Types
  <2> QED BY <2>2, <2>4, <2>5, <2>6
<1>6. CASE \E n \in Names : WriteHere(n)
  <2>1. PICK n \in Names : WriteHere(n) BY <1>6
  <2>2. /\ UNCHANGED <<peer, near, started, ended, want, agreed, parcel, far, put, mute, seen>>
        /\ writes' = writes + 1 /\ stale' = stale \cup {n}
    BY <2>1 DEF WriteHere, nearVars
  <2>3. PICK d \in Data, t \in {source[n].mtime, writes'} : source' = [source EXCEPT ![n] = [data |-> d, mtime |-> t]]
    BY <2>1 DEF WriteHere
  <2>4. t \in Nat BY <1>0, <2>2 DEF Types
  <2>5. source' \in [Names -> [data : Data, mtime : Nat]] BY <1>0, <2>3, <2>4 DEF Types
  <2> QED BY <1>0, <1>c, <2>2, <2>5 DEF Types
<1>7. CASE \E n \in Names : WriteThere(n)
  <2>1. PICK n \in Names : WriteThere(n) BY <1>7
  <2>2. /\ UNCHANGED <<source, near, started, ended, want, agreed, parcel, far, put, mute, stale>>
        /\ writes' = writes + 1
    BY <2>1 DEF WriteThere, nearVars
  <2>3. PICK d \in Data \cup {Gone} : peer' = [peer EXCEPT ![n] = d] /\ seen' = [seen EXCEPT ![n] = @ \cup {d}]
    BY <2>1 DEF WriteThere
  <2> QED BY <1>0, <1>c, <2>2, <2>3 DEF Types
<1> QED BY <1>1, <1>2, <1>3, <1>4, <1>5, <1>6, <1>7 DEF PeerNext, NearStep, NearAction
-----------------------------------------------------------------------------
(* Where both sides can be at one time.                                    *)

AnyEnd(how) ==
  /\ Ends(how) /\ UNCHANGED <<tier, source, peer, want, far, put, seen, stale, writes>>
  /\ mute \subseteq mute'

LEMMA LostIsAnEnd ==
  ASSUME AnswerLost
  PROVE  AnyEnd("error")
BY DEF AnswerLost, AnyEnd, Ends, EndRun, ThisRun

\* People write; neither side moves.
Edits ==
  /\ UNCHANGED <<tier, agreed, near, want, parcel, far, put, ended, started, mute>>
  /\ \/ /\ UNCHANGED <<peer, seen>>
        /\ \E n \in Names : stale' = stale \cup {n} /\ \A m \in Names \ {n} : source'[m] = source[m]
     \/ /\ UNCHANGED <<source, stale>>
        /\ \E n \in Names, d \in Data \cup {Gone} :
             peer' = [peer EXCEPT ![n] = d] /\ seen' = [seen EXCEPT ![n] = @ \cup {d}]

LEMMA EditsOf ==
  ASSUME Types, NEW n \in Names, WriteHere(n) \/ WriteThere(n)
  PROVE  Edits
<1>1. CASE WriteHere(n)
  <2>1. PICK d, t : source' = [source EXCEPT ![n] = [data |-> d, mtime |-> t]] BY <1>1 DEF WriteHere
  <2>2. \A m \in Names \ {n} : source'[m] = source[m] BY <2>1 DEF Types
  <2> QED BY <1>1, <2>2 DEF WriteHere, Edits, nearVars
<1>2. CASE WriteThere(n) BY <1>2 DEF WriteThere, Edits, nearVars
<1> QED BY <1>1, <1>2

\* Everything that can happen.
LEMMA AllSteps ==
  ASSUME Inv, PeerNext
  PROVE  \/ NearQuiet /\ (GoesOn \/ Packs)
         \/ \E how : AnyEnd(how)
         \/ ComparePeer \/ Launch
         \/ \E r \in Run : FarQuiet /\ (Moves(r) \/ Publishes(r) \/ Damages(r))
         \/ Edits
<1>0. Types /\ Phases /\ Complete BY DEF Inv
<1>1. CASE NearAction
  <2>1. NearQuiet /\ (GoesOn \/ Packs \/ \E how : Ends(how)) BY <1>0, <1>1, NearMoves
  <2>2. CASE \E how : Ends(how)
    <3>1. PICK how : Ends(how) BY <2>2
    <3>2. AnyEnd(how) BY <2>1, <3>1 DEF AnyEnd, NearQuiet
    <3> QED BY <3>2
  <2> QED BY <2>1, <2>2
<1>2. CASE AnswerLost BY <1>2, LostIsAnEnd
<1>3. CASE \E r \in Run : FarStep(r) BY <1>0, <1>3, FarMoves
<1>4. CASE \E n \in Names : WriteHere(n) \/ WriteThere(n) BY <1>0, <1>4, EditsOf
<1> QED BY <1>1, <1>2, <1>3, <1>4 DEF PeerNext, NearStep, NearAction

LEMMA PhasesStep ==
  ASSUME Inv, PeerNext
  PROVE  Phases'
<1>0. Types /\ Phases BY DEF Inv
<1>1. CASE NearQuiet /\ GoesOn
  <2>1. /\ near'.run = near.run
        /\ UNCHANGED <<tier, want, far, put, mute, parcel, ended, started>>
    BY <1>1 DEF NearQuiet, GoesOn
  <2>2. /\ near'.at # "idle" => near.at # "idle"
        /\ near.at = "idle" => near'.at = "idle"
        /\ near'.at = "idle" => near.at = "idle"
        /\ near'.at \in Preparing => near.at \in Preparing
        /\ near'.at \in {"wait", "refresh"} => near.at \in {"wait", "refresh"}
        /\ near'.at = "refresh" => far[near.run].at = "done"
        /\ near'.at \in {"first", "second"} => near'.i <= Len(Order) /\ Wanted(near.run, Order[near'.i])
    BY <1>0, <1>1 DEF GoesOn, Phases, Preparing, Packing, Name
  <2> QED BY <1>0, <2>1, <2>2 DEF Phases, Wanted, Name
<1>2. CASE NearQuiet /\ Packs
  <2>1. /\ near'.run = near.run /\ near.at \in {"first", "second"} /\ near'.at = "open"
        /\ UNCHANGED <<tier, want, far, put, mute, ended, started>>
    BY <1>2 DEF NearQuiet, Packs
  <2>2. near.run \in Nat BY <1>0, RunFacts DEF Types, NearType
  <2>3. \A r \in Run : r > near.run => parcel'[r] = parcel[r] BY <1>0, <1>2, <2>2, RunFacts DEF Packs, Types
  <2> QED BY <1>0, <2>1, <2>3 DEF Phases, Preparing, Packing
<1>3. CASE \E how : AnyEnd(how)
  <2>1. PICK how : AnyEnd(how) BY <1>3
  <2>2. /\ near'.at = "idle" /\ near'.run = near.run
        /\ UNCHANGED <<far, put, parcel, started>> /\ mute \subseteq mute'
    BY <2>1 DEF AnyEnd, Ends, Rest
  <2>3. near.run \in Nat /\ ended' = [ended EXCEPT ![near.run] = [how |-> how, writes |-> started]]
    BY <1>0, <2>1, RunFacts DEF AnyEnd, Ends, Types, NearType
  <2>4. \A r \in Run : r # near.run => ended'[r] = ended[r] BY <1>0, <2>3 DEF Types
  <2>5. near.run \in Run => ended'[near.run].how = how BY <1>0, <2>3 DEF Types
  <2>6. how = "clean" => far[near.run].at = "done" BY <1>0, <2>1 DEF AnyEnd, Ends, Phases
  <2>7. near.run \notin mute' => far[near.run].at \in Over \cup {"none"}
    BY <1>0, <2>1 DEF AnyEnd, Ends, Phases, Over
  <2>8. \A r \in Run : r > near.run => ended'[r].how = "no" BY <1>0, <2>3, <2>4, RunFacts DEF Phases
  <2>9. \A r \in Run : ended'[r].how = "clean" => far'[r].at = "done" BY <1>0, <2>2, <2>4, <2>5, <2>6 DEF Phases
  <2>10. \A r \in Run : r <= near.run /\ r \notin mute' => far'[r].at \in Over \cup {"none"}
    BY <1>0, <2>2, <2>3, <2>7, RunFacts DEF Phases
  <2>11. \A r \in Run : (r < near.run \/ r = near.run) => r <= near.run BY <2>3, RunFacts
  <2> QED BY <1>0, <2>2, <2>8, <2>9, <2>10, <2>11 DEF Phases, Preparing, Packing
<1>4. CASE ComparePeer
  <2>1. /\ near.at = "idle" /\ near'.at = "table" /\ near'.run = near.run + 1 /\ near.run < Runs
        /\ UNCHANGED <<parcel, far, put, ended, mute>>
    BY <1>4 DEF ComparePeer, ThisRun, Rest
  <2>2. near.run \in Nat /\ near'.run \in Run /\ near'.run > near.run
    BY <1>0, <2>1, RunFacts DEF Types, NearType, Run
  <2>3. far[near'.run] = Idle /\ ended[near'.run].how = "no" BY <1>0, <2>2 DEF Phases
  <2>4. \A r \in Run : r > near'.run => r > near.run BY <2>1, <2>2, RunFacts
  <2>5. \A r \in Run : r < near'.run => r < near.run \/ r = near.run BY <2>1, <2>2, RunFacts
  <2>6. near'.run # 0 /\ Idle.at = "none" BY <2>2, RunFacts DEF Idle
  <2> QED BY <1>0, <2>1, <2>3, <2>4, <2>5, <2>6 DEF Phases, Preparing, Packing
<1>5. CASE Launch
  <2>1. /\ near.at = "launch" /\ near'.at = "wait" /\ near'.run = near.run /\ started'
        /\ far' = [far EXCEPT ![near.run].at = "decode"]
        /\ UNCHANGED <<parcel, put, ended, mute>>
    BY <1>0, <1>5 DEF Launch, Go, ThisRun, Types, NearType
  <2>2. near.run \in Run /\ ended[near.run].how = "no" /\ far[near.run].at = "none"
    BY <1>0, <2>1, RunFacts DEF Phases, Types, NearType, Preparing
  <2>3. far'[near.run].at = "decode" /\ \A r \in Run \ {near.run} : far'[r] = far[r]
    BY <1>0, <2>1, <2>2 DEF Types, FarType
  <2>4. \A r \in Run : (r > near.run \/ r < near.run) => r # near.run BY <2>2, RunFacts
  <2> QED BY <1>0, <2>1, <2>2, <2>3, <2>4 DEF Phases, Preparing, Packing
<1>6. CASE \E r \in Run : FarQuiet /\ (Moves(r) \/ Publishes(r) \/ Damages(r))
  <2>1. PICK r \in Run : FarQuiet /\ (Moves(r) \/ Publishes(r) \/ Damages(r)) BY <1>6
  <2>2. UNCHANGED <<near, want, ended, started, mute>> BY <2>1 DEF FarQuiet
  <2>3. CASE Moves(r) \/ Publishes(r)
    <3>1. /\ parcel' = parcel /\ far[r].at \notin {"none"} \cup Over /\ far'[r].at # "none"
          /\ \A q \in Run \ {r} : far'[q] = far[q] /\ put'[q] = put[q]
      BY <1>0, <2>3 DEF Moves, Publishes, Handles, Over, Types
    <3>2. r # near.run \/ near.at \notin Preparing \cup {"refresh"} BY <1>0, <3>1 DEF Phases, Over
    <3>3. ~(r > near.run) BY <1>0, <3>1 DEF Phases, Idle
    <3>5. near.at # "idle" => near.run \in Run BY <1>0, RunFacts DEF Phases, Types, NearType
    <3>6. near.at \in Preparing => far'[near.run].at = "none" BY <1>0, <3>1, <3>2, <3>5 DEF Phases, Preparing, Packing
    <3>7. near.at = "refresh" => far'[near.run].at = "done" BY <1>0, <3>1, <3>2, <3>5 DEF Phases
    <3>8. \A q \in Run : q > near.run =>
            far'[q] = Idle /\ ended[q].how = "no" /\ \A n \in Names : parcel'[q][n] = NoEntry
      BY <1>0, <3>1, <3>3 DEF Phases
    <3>9. \A q \in Run : far'[q].at = "none" => far'[q] = Idle /\ \A n \in Names : put'[q][n] = Gone
      BY <1>0, <3>1 DEF Phases
    <3>10. \A q \in Run : (q < near.run \/ (q = near.run /\ near.at = "idle")) /\ q \notin mute =>
             far'[q].at \in Over \cup {"none"}
      BY <1>0, <3>1 DEF Phases
    <3>11. \A q \in Run : ended[q].how = "clean" => far'[q].at = "done"
      BY <1>0, <3>1 DEF Phases, Over
    <3> QED BY <1>0, <2>2, <3>6, <3>7, <3>8, <3>9, <3>10, <3>11 DEF Phases, Wanted, Name
  <2>4. CASE Damages(r)
    <3>1. PICK n \in Names, p \in Piece : parcel[r][n] # NoEntry /\ parcel' = [parcel EXCEPT ![r][n].data[1] = p]
      BY <2>4 DEF Damages
    <3>2. ~(r > near.run) BY <1>0, <3>1 DEF Phases
    <3>3. \A q \in Run : q > near.run => parcel'[q] = parcel[q] BY <1>0, <3>1, <3>2 DEF Types
    <3>4. UNCHANGED <<far, put>> BY <2>4 DEF Damages
    <3> QED BY <1>0, <2>2, <3>3, <3>4 DEF Phases, Wanted, Name
  <2> QED BY <2>1, <2>3, <2>4
<1>7. CASE Edits
  <2>1. UNCHANGED <<near, want, parcel, far, put, ended, started, mute>> BY <1>7 DEF Edits
  <2> QED BY <1>0, <2>1 DEF Phases, Wanted, Name
<1> QED BY <1>1, <1>2, <1>3, <1>4, <1>5, <1>6, <1>7, AllSteps

LEMMA BeforeWritesStep ==
  ASSUME Inv, PeerNext
  PROVE  BeforeWrites'
<1>0. Types /\ Phases /\ BeforeWrites BY DEF Inv
<1>1. CASE \E how : AnyEnd(how)
  <2>1. PICK how : AnyEnd(how) BY <1>1
  <2>2. far' = far /\ ended' = [ended EXCEPT ![near.run] = [how |-> how, writes |-> started]]
    BY <2>1 DEF AnyEnd, Ends
  <2>3. \A r \in Run : r # near.run => ended'[r] = ended[r] BY <1>0, <2>2 DEF Types
  <2>4. near.run \in Run => ended'[near.run].writes = started BY <1>0, <2>2 DEF Types
  <2>5. ~started => far[near.run].at = "none" BY <1>0, <2>1 DEF AnyEnd, Ends, Phases
  <2> QED BY <1>0, <2>2, <2>3, <2>4, <2>5 DEF BeforeWrites
<1>2. CASE Launch
  <2>1. /\ near.at = "launch" /\ far' = [far EXCEPT ![near.run].at = "decode"] /\ ended' = ended
    BY <1>2 DEF Launch, ThisRun
  <2>2. ended[near.run].how = "no" BY <1>0, <2>1 DEF Phases
  <2>3. \A r \in Run \ {near.run} : far'[r] = far[r] BY <1>0, <2>1 DEF Types
  <2> QED BY <1>0, <2>1, <2>2, <2>3 DEF BeforeWrites
<1>3. CASE \E r \in Run : FarQuiet /\ (Moves(r) \/ Publishes(r) \/ Damages(r))
  <2>1. PICK r \in Run : FarQuiet /\ (Moves(r) \/ Publishes(r) \/ Damages(r)) BY <1>3
  <2>2. ended' = ended /\ (far' = far \/ (far[r].at # "none" /\ \A q \in Run \ {r} : far'[q] = far[q]))
    BY <2>1 DEF FarQuiet, Moves, Publishes, Damages
  <2> QED BY <1>0, <2>2 DEF BeforeWrites
<1>4. CASE UNCHANGED <<far, ended>> BY <1>0, <1>4 DEF BeforeWrites
<1>5. ComparePeer \/ Edits \/ (NearQuiet /\ (GoesOn \/ Packs)) => UNCHANGED <<far, ended>>
  BY DEF ComparePeer, Edits, NearQuiet, GoesOn, Packs
<1> QED BY <1>1, <1>2, <1>3, <1>4, <1>5, AllSteps
-----------------------------------------------------------------------------
(* The content on its way.                                                 *)

\* The run whose comparison starts has left no trace yet.
LEMMA NewRunIsNew ==
  ASSUME Types, Phases, ComparePeer
  PROVE  /\ near'.run = near.run + 1 /\ near'.run \in Run
         /\ near'.at = "table" /\ near'.i = 1 /\ stale' = {}
         /\ UNCHANGED <<tier, source, peer, parcel, far, put, seen>>
         /\ far[near'.run] = Idle
         /\ \A n \in Names : parcel[near'.run][n] = NoEntry /\ put[near'.run][n] = Gone
         /\ \A r \in Run \ {near'.run} : want'[r] = want[r]
         /\ want'[near'.run] = [n \in Names |-> IF peer[n] # source[n].data THEN source[n]
                                                ELSE [data |-> Gone, mtime |-> 0]]
<1>1. /\ near.at = "idle" /\ near'.at = "table" /\ near'.run = near.run + 1 /\ near.run < Runs /\ near'.i = 1
      /\ stale' = {} /\ UNCHANGED <<tier, source, peer, parcel, far, put, seen>>
  BY DEF ComparePeer, ThisRun, Rest
<1>2. near.run \in Nat /\ near'.run \in Run /\ near'.run > near.run
  BY <1>1, RunFacts DEF Types, NearType, Run
<1>3. far[near'.run] = Idle /\ \A n \in Names : parcel[near'.run][n] = NoEntry BY <1>2 DEF Phases
<1>4. \A n \in Names : put[near'.run][n] = Gone BY <1>2, <1>3 DEF Phases, Idle
<1>5. want' = [want EXCEPT ![near'.run] =
                [n \in Names |-> IF peer[n] # source[n].data THEN source[n] ELSE [data |-> Gone, mtime |-> 0]]]
  BY <1>1 DEF ComparePeer, ThisRun
<1>6. /\ \A r \in Run \ {near'.run} : want'[r] = want[r]
      /\ want'[near'.run] = [n \in Names |-> IF peer[n] # source[n].data THEN source[n]
                                             ELSE [data |-> Gone, mtime |-> 0]]
  BY <1>2, <1>5 DEF Types
<1> QED BY <1>1, <1>2, <1>3, <1>4, <1>6

\* What a step of the far side does to what is staged.
LEMMA StagedMoves ==
  ASSUME Types, NEW r \in Run, Moves(r)
  PROVE  /\ far'[r].staged = far[r].staged
            \/ \E n \in Names : /\ parcel[r][n] # NoEntry
                                /\ far'[r].staged = [far[r].staged EXCEPT ![n] = parcel[r][n].hash]
         /\ \A q \in Run \ {r} : far'[q] = far[q]
<1>1. far[r].i \in 1..(Len(Order) + 1) BY DEF Types, FarType
<1>2. far[r].i <= Len(Order) => Order[far[r].i] \in Names BY <1>1, OrderNames
<1> QED BY <1>2 DEF Moves, Handles

LEMMA PublishedNames ==
  ASSUME Types, NEW r \in Run, Publishes(r)
  PROVE  /\ Order[far[r].i] \in Names /\ far[r].i \in 1..Len(Order)
         /\ far[r].staged[Order[far[r].i]] \in Data \cup {Gone}
<1>1. far[r] \in FarType BY DEF Types
<1>2. far[r].i \in 1..Len(Order) BY <1>1, OrderNames DEF Publishes, FarType
<1> QED BY <1>1, <1>2, OrderNames DEF FarType

LEMMA HonestStep ==
  ASSUME Inv, PeerNext
  PROVE  Honest'
<1>0. Types /\ Phases /\ Honest BY DEF Inv
<1>1. CASE NearQuiet /\ GoesOn
  <2>1. near'.run = near.run /\ UNCHANGED <<tier, want, far, put, parcel>> BY <1>1 DEF NearQuiet, GoesOn
  <2>2. CASE near'.at # "second" BY <1>0, <2>1, <2>2 DEF Honest, Matches
  <2>3. CASE near.at = "second" /\ near'.at = "second" /\ near'.first = near.first /\ near'.i = near.i
    BY <1>0, <2>1, <2>3 DEF Honest, Matches, Name
  <2>4. CASE near.at = "first" /\ near'.at = "second" /\ near'.i = near.i /\ near'.first = near.read
             /\ Matches(near.read, want[near.run][Name])
    <3>1. near.read \in Seq(Piece) /\ near.i \in 1..(Len(Order) + 1) /\ near.run \in 0..Runs
      BY <1>0 DEF Types, NearType
    <3>2. near.i <= Len(Order) /\ Wanted(near.run, Name) /\ near.run # 0 BY <1>0, <2>4 DEF Phases
    <3>3. near.run \in Run /\ Name \in Names BY <3>1, <3>2, RunFacts, OrderNames DEF Name
    <3>4. want[near.run][Name].data \in Data BY <1>0, <3>2, <3>3 DEF Types, Wanted
    <3>5. near.read \in Data BY <2>4, <3>1, <3>4, MatchesIsData
    <3> QED BY <1>0, <2>1, <2>4, <3>5 DEF Honest, Matches, Name
  <2> QED BY <1>1, <2>2, <2>3, <2>4 DEF GoesOn
<1>2. CASE NearQuiet /\ Packs
  <2>1. near'.at = "open" /\ UNCHANGED <<tier, want, far, put>> BY <1>2 DEF NearQuiet, Packs
  <2>2. PICK e : /\ IsEntry(e) /\ parcel' = [parcel EXCEPT ![near.run][Name] = e]
                 /\ Matches(e.hash, want[near.run][Name])
    BY <1>0, <1>2, EntryIsHonest
  <2>3. \A r \in Run, n \in Names :
          parcel'[r][n] = parcel[r][n] \/ (r = near.run /\ n = Name /\ parcel'[r][n] = e)
    BY <1>0, <2>2 DEF Types
  <2>4. \A r \in Run, n \in Names : parcel'[r][n] # NoEntry => Matches(parcel'[r][n].hash, want[r][n])
    BY <1>0, <2>2, <2>3 DEF Honest
  <2> QED BY <1>0, <2>1, <2>4 DEF Honest, Matches
<1>3. CASE \E how : AnyEnd(how)
  <2>1. near'.at = "idle" /\ UNCHANGED <<tier, want, far, put, parcel>> BY <1>3 DEF AnyEnd, Ends, Rest
  <2> QED BY <1>0, <2>1 DEF Honest, Matches
<1>4. CASE ComparePeer
  <2>1. /\ near'.run \in Run /\ near'.at = "table" /\ UNCHANGED <<tier, parcel, far, put>>
        /\ far[near'.run] = Idle /\ \A n \in Names : parcel[near'.run][n] = NoEntry /\ put[near'.run][n] = Gone
        /\ \A r \in Run \ {near'.run} : want'[r] = want[r]
    BY <1>0, <1>4, NewRunIsNew
  <2>2. \A n \in Names : Idle.staged[n] = Gone BY DEF Idle
  <2> QED BY <1>0, <2>1, <2>2 DEF Honest, Matches
<1>5. CASE Launch
  <2>1. UNCHANGED <<tier, want, parcel, put>> /\ near'.at # "second" /\ far' = [far EXCEPT ![near.run].at = "decode"]
    BY <1>0, <1>5 DEF Launch, Go, ThisRun, Types, NearType
  <2>2. \A r \in Run : far'[r].staged = far[r].staged BY <1>0, <2>1 DEF Types, FarType
  <2> QED BY <1>0, <2>1, <2>2 DEF Honest, Matches
<1>6. CASE \E r \in Run : FarQuiet /\ (Moves(r) \/ Publishes(r) \/ Damages(r))
  <2>1. PICK r \in Run : FarQuiet /\ (Moves(r) \/ Publishes(r) \/ Damages(r)) BY <1>6
  <2>2. UNCHANGED <<tier, near, want>> BY <2>1 DEF FarQuiet
  <2>3. CASE Moves(r)
    <3>1. UNCHANGED <<put, parcel>> BY <2>3 DEF Moves
    <3>2. far[r].staged \in [Names -> Data \cup {Gone}] BY <1>0 DEF Types, FarType
    <3>3. /\ \A q \in Run \ {r} : far'[q] = far[q]
          /\ \A n \in Names : far'[r].staged[n] = far[r].staged[n]
                              \/ (parcel[r][n] # NoEntry /\ far'[r].staged[n] = parcel[r][n].hash)
      <4>1. /\ far'[r].staged = far[r].staged
               \/ \E n \in Names : /\ parcel[r][n] # NoEntry
                                   /\ far'[r].staged = [far[r].staged EXCEPT ![n] = parcel[r][n].hash]
            /\ \A q \in Run \ {r} : far'[q] = far[q]
        BY <1>0, <2>3, StagedMoves
      <4>2. CASE far'[r].staged = far[r].staged BY <4>1, <4>2
      <4>3. CASE \E n \in Names : /\ parcel[r][n] # NoEntry
                                  /\ far'[r].staged = [far[r].staged EXCEPT ![n] = parcel[r][n].hash]
        BY <3>2, <4>1, <4>3
      <4> QED BY <4>1, <4>2, <4>3
    <3>4. \A q \in Run, n \in Names : far'[q].staged[n] # Gone => Matches(far'[q].staged[n], want[q][n])
      BY <1>0, <3>3 DEF Honest
    <3> QED BY <1>0, <2>2, <3>1, <3>4 DEF Honest, Matches, Name
  <2>4. CASE Publishes(r)
    <3> DEFINE n == Order[far[r].i]
    <3>1. n \in Names BY <1>0, <2>4, PublishedNames
    <3>2. put' = put \/ put' = [put EXCEPT ![r][n] = far[r].staged[n]] BY <2>4 DEF Publishes
    <3>3. \A q \in Run, m \in Names : put'[q][m] = put[q][m] \/ (q = r /\ m = n /\ put'[q][m] = far[r].staged[n])
      BY <1>0, <3>1, <3>2 DEF Types
    <3>4. \A q \in Run, m \in Names : put'[q][m] # Gone => Matches(put'[q][m], want[q][m])
      BY <1>0, <3>3 DEF Honest
    <3>5. parcel' = parcel /\ \A q \in Run : far'[q].staged = far[q].staged BY <2>4 DEF Publishes
    <3> QED BY <1>0, <2>2, <3>4, <3>5 DEF Honest, Matches, Name
  <2>5. CASE Damages(r)
    <3>1. UNCHANGED <<far, put>> BY <2>5 DEF Damages
    <3>2. \A q \in Run, m \in Names :
            parcel'[q][m] = parcel[q][m] \/ (parcel[q][m] # NoEntry /\ parcel'[q][m].hash = parcel[q][m].hash)
      <4>1. PICK n \in Names, p \in Piece : parcel[r][n] # NoEntry /\ parcel' = [parcel EXCEPT ![r][n].data[1] = p]
        BY <2>5 DEF Damages
      <4>2. IsEntry(parcel[r][n]) BY <1>0, <4>1 DEF Types
      <4>3. parcel'[r][n].hash = parcel[r][n].hash BY <1>0, <4>1, <4>2 DEF Types, IsEntry
      <4>4. \A q \in Run, m \in Names : (q # r \/ m # n) => parcel'[q][m] = parcel[q][m] BY <1>0, <4>1 DEF Types
      <4> QED BY <4>1, <4>3, <4>4
    <3>3. \A q \in Run, m \in Names : parcel'[q][m] # NoEntry => Matches(parcel'[q][m].hash, want[q][m])
      BY <1>0, <3>2 DEF Honest
    <3> QED BY <1>0, <2>2, <3>1, <3>3 DEF Honest, Matches, Name
  <2> QED BY <2>1, <2>3, <2>4, <2>5
<1>7. CASE Edits
  <2>1. UNCHANGED <<tier, near, want, parcel, far, put>> BY <1>7 DEF Edits
  <2> QED BY <1>0, <2>1 DEF Honest, Matches, Name
<1> QED BY <1>1, <1>2, <1>3, <1>4, <1>5, <1>6, <1>7, AllSteps
-----------------------------------------------------------------------------
(* Nothing is left out on the way.                                         *)

\* What the package holds stays in it.
LEMMA EntriesStay ==
  ASSUME Inv, PeerNext, NEW r \in Run, NEW n \in Names, parcel[r][n] # NoEntry
  PROVE  parcel'[r][n] # NoEntry
<1>0. Types /\ Phases /\ Honest BY DEF Inv
<1>1. CASE NearQuiet /\ Packs
  <2>1. PICK e : IsEntry(e) /\ parcel' = [parcel EXCEPT ![near.run][Name] = e] BY <1>0, <1>1, EntryIsHonest
  <2>2. e # NoEntry BY <2>1 DEF IsEntry, NoEntry
  <2> QED BY <1>0, <2>1, <2>2 DEF Types
<1>2. CASE \E q \in Run : Damages(q)
  <2>1. PICK q \in Run, m \in Names, p \in Piece :
          parcel[q][m] # NoEntry /\ parcel' = [parcel EXCEPT ![q][m].data[1] = p]
    BY <1>2 DEF Damages
  <2>2. IsEntry(parcel[r][n]) BY <1>0 DEF Types
  <2>3. parcel'[r][n].kind = parcel[r][n].kind BY <1>0, <2>1, <2>2 DEF Types, IsEntry
  <2> QED BY <2>2, <2>3 DEF IsEntry, NoEntry
<1>3. parcel' = parcel \/ (NearQuiet /\ Packs) \/ \E q \in Run : Damages(q)
  BY AllSteps DEF GoesOn, AnyEnd, Ends, ComparePeer, Launch, Moves, Publishes, Edits
<1> QED BY <1>1, <1>2, <1>3

\* What the far side of one run needs, whatever the steps of this side did before.
FarComplete(r) ==
  /\ far[r].at # "none" => \A n \in RunOps(r) : parcel[r][n] # NoEntry
  /\ far[r].at = "rebuild" => far[r].i <= Len(Order) /\ Wanted(r, Order[far[r].i])
  /\ far[r].at = "decode" => far[r].i = 1
  /\ far[r].at \in {"stage", "rebuild"} /\ ~far[r].bad => \A j \in 1..Len(Order) :
       j < far[r].i /\ Wanted(r, Order[j]) => far[r].staged[Order[j]] # Gone
  /\ far[r].at = "apply" => \A n \in RunOps(r) : far[r].staged[n] # Gone
  /\ far[r].at = "apply" /\ ~far[r].bad => \A j \in 1..Len(Order) :
       j < far[r].i /\ Wanted(r, Order[j]) => put[r][Order[j]] # Gone
  /\ far[r].at = "done" => \A n \in RunOps(r) : put[r][n] # Gone

NearComplete ==
  /\ near.at = "table" => near.i = 1
  /\ near.at \in Packing => \A j \in 1..Len(Order) :
       j < near.i /\ Wanted(near.run, Order[j]) => parcel[near.run][Order[j]] # NoEntry
  /\ near.at \in {"ship", "launch"} => \A n \in RunOps(near.run) : parcel[near.run][n] # NoEntry

LEMMA CompleteParts == Complete <=> NearComplete /\ \A r \in Run : FarComplete(r)
BY DEF Complete, NearComplete, FarComplete

\* A run whose far side, publications and plan stay as they are.
LEMMA FarStays ==
  ASSUME Inv, PeerNext, NEW r \in Run, far'[r] = far[r], put'[r] = put[r],
         \A n \in Names : want'[r][n] = want[r][n]
  PROVE  FarComplete(r)'
<1>1. FarComplete(r) BY CompleteParts DEF Inv
<1>2. \A n \in Names : parcel[r][n] # NoEntry => parcel'[r][n] # NoEntry BY EntriesStay
<1>3. \A n \in Names : Wanted(r, n)' <=> Wanted(r, n) BY DEF Wanted
<1>4. \A j \in 1..Len(Order) : Order[j] \in Names BY OrderNames
<1>5. far[r].i \in 1..(Len(Order) + 1) BY DEF Inv, Types, FarType
<1>6. far[r].i <= Len(Order) => far[r].i \in 1..Len(Order) BY <1>5, OrderNames
<1> QED BY <1>1, <1>2, <1>3, <1>4, <1>6 DEF FarComplete, RunOps

LEMMA NearCompleteStep ==
  ASSUME Inv, PeerNext
  PROVE  NearComplete'
<1>0. Types /\ Phases /\ Honest /\ NearComplete BY CompleteParts DEF Inv
<1>o. Len(Order) \in Nat /\ \A j \in 1..Len(Order) : Order[j] \in Names BY OrderNames
<1>i. near.i \in 1..(Len(Order) + 1) BY <1>0 DEF Types, NearType
<1>r. near.at # "idle" => near.run \in Run
  BY <1>0, RunFacts DEF Phases, Types, NearType
<1>p. \A r \in Run, n \in Names : parcel[r][n] # NoEntry => parcel'[r][n] # NoEntry BY EntriesStay
<1>1. CASE NearQuiet /\ GoesOn
  <2>1. near'.run = near.run /\ want' = want /\ parcel' = parcel BY <1>1 DEF NearQuiet, GoesOn
  <2>2. CASE near' = near BY <1>0, <2>1, <2>2 DEF NearComplete, RunOps, Wanted
  <2>3. CASE near.at = "table" /\ near'.at = "open" /\ near'.i = near.i
    BY <1>0, <1>o, <2>3 DEF NearComplete
  <2>4. CASE near.at = "open" /\ near'.at = "ship" /\ near.i > Len(Order)
    <3>1. \A n \in Names : Wanted(near.run, n) => parcel[near.run][n] # NoEntry
      BY <1>0, <1>i, <1>o, <2>4, OrderNames DEF NearComplete, Packing
    <3> QED BY <2>1, <2>4, <3>1 DEF NearComplete, Packing, RunOps, Wanted
  <2>5. CASE /\ near.at = "open" /\ near'.at = "open" /\ near.i <= Len(Order) /\ near'.i = near.i + 1
             /\ ~Wanted(near.run, Order[near.i])
    <3>1. \A j \in 1..Len(Order) : j < near'.i => j < near.i \/ j = near.i BY <1>i, <1>o, <2>5
    <3>2. \A j \in 1..Len(Order) : j < near'.i /\ Wanted(near.run, Order[j]) => parcel[near.run][Order[j]] # NoEntry
      BY <1>0, <2>5, <3>1 DEF NearComplete, Packing
    <3> QED BY <2>1, <2>5, <3>2 DEF NearComplete, Packing, Wanted
  <2>6. CASE near.at \in Packing /\ near'.at \in Packing /\ near'.i = near.i
    BY <1>0, <2>1, <2>6 DEF NearComplete, Packing, Wanted
  <2>7. CASE near.at = "ship" /\ near'.at = "launch"
    BY <1>0, <2>1, <2>7 DEF NearComplete, Packing, RunOps, Wanted
  <2>8. CASE near'.at = "refresh" BY <2>8 DEF NearComplete, Packing
  <2> QED BY <1>1, <2>2, <2>3, <2>4, <2>5, <2>6, <2>7, <2>8 DEF GoesOn, Packing
<1>2. CASE NearQuiet /\ Packs
  <2>1. near'.run = near.run /\ want' = want /\ near.at \in Packing /\ near'.at = "open" /\ near'.i = near.i + 1
        /\ near.at # "idle"
    BY <1>2 DEF NearQuiet, Packs, Packing
  <2>2. PICK e : IsEntry(e) /\ parcel' = [parcel EXCEPT ![near.run][Name] = e] BY <1>0, <1>2, EntryIsHonest
  <2>3. near.i <= Len(Order) BY <1>0, <1>2 DEF Phases, Packs
  <2>4. Name \in Names /\ near.run \in Run BY <1>i, <1>o, <1>r, <2>1, <2>3 DEF Name
  <2>5. parcel'[near.run][Name] # NoEntry BY <1>0, <2>2, <2>4 DEF Types, IsEntry, NoEntry
  <2>6. \A j \in 1..Len(Order) : j < near'.i => j < near.i \/ j = near.i BY <1>i, <1>o, <2>1
  <2>7. \A j \in 1..Len(Order) : j < near'.i /\ Wanted(near.run, Order[j]) => parcel'[near.run][Order[j]] # NoEntry
    BY <1>0, <1>o, <1>p, <2>1, <2>4, <2>5, <2>6 DEF NearComplete, Name
  <2> QED BY <2>1, <2>7 DEF NearComplete, Packing, Wanted
<1>3. CASE near'.at \notin {"table", "ship", "launch"} \cup Packing
  BY <1>3 DEF NearComplete, Packing
<1>4. CASE ComparePeer BY <1>0, <1>4, NewRunIsNew DEF NearComplete, Packing
<1>5. CASE near' = near /\ want' = want
  BY <1>0, <1>o, <1>p, <1>r, <1>5 DEF NearComplete, Packing, RunOps, Wanted
<1>6. (\E how : AnyEnd(how)) \/ Launch => near'.at \notin {"table", "ship", "launch"} \cup Packing
  BY <1>0 DEF AnyEnd, Ends, Rest, Launch, Go, Types, NearType, Packing
<1>7. Edits \/ (\E r \in Run : FarQuiet /\ (Moves(r) \/ Publishes(r) \/ Damages(r))) => near' = near /\ want' = want
  BY DEF Edits, FarQuiet
<1> QED BY <1>1, <1>2, <1>3, <1>4, <1>5, <1>6, <1>7, AllSteps

LEMMA FarCompleteStep ==
  ASSUME Inv, PeerNext, NEW r \in Run
  PROVE  FarComplete(r)'
<1>0. Types /\ Phases /\ NearComplete /\ FarComplete(r) BY CompleteParts DEF Inv
<1>o. Len(Order) \in Nat /\ \A j \in 1..Len(Order) : Order[j] \in Names BY OrderNames
<1>i. far[r].i \in 1..(Len(Order) + 1) /\ far[r].staged \in [Names -> Data \cup {Gone}] /\ far[r].bad \in BOOLEAN
  BY <1>0 DEF Types, FarType
<1>1. CASE UNCHANGED <<far, put, want>> BY <1>1, FarStays
<1>2. CASE ComparePeer
  <2>1. UNCHANGED <<far, put>> /\ far[near'.run] = Idle /\ \A q \in Run \ {near'.run} : want'[q] = want[q]
    BY <1>0, <1>2, NewRunIsNew
  <2>2. CASE r # near'.run BY <2>1, <2>2, FarStays
  <2>3. CASE r = near'.run
    <3>1. far'[r].at = "none" BY <2>1, <2>3 DEF Idle
    <3> QED BY <3>1 DEF FarComplete
  <2> QED BY <2>2, <2>3
<1>3. CASE Launch
  <2>1. /\ near.at = "launch" /\ far' = [far EXCEPT ![near.run].at = "decode"] /\ UNCHANGED <<put, want, parcel>>
    BY <1>3 DEF Launch, ThisRun
  <2>2. CASE r # near.run
    <3>1. far'[r] = far[r] BY <1>0, <2>1, <2>2 DEF Types
    <3> QED BY <2>1, <3>1, FarStays
  <2>3. CASE r = near.run
    <3>1. far[r] = Idle BY <1>0, <2>1, <2>3 DEF Phases, Preparing
    <3>2. far'[r] = [far[r] EXCEPT !.at = "decode"] BY <1>0, <2>1, <2>3 DEF Types
    <3>3. far'[r].at = "decode" /\ far'[r].i = 1 BY <3>1, <3>2 DEF Idle
    <3>4. \A n \in RunOps(r) : parcel[r][n] # NoEntry BY <1>0, <2>1, <2>3 DEF NearComplete
    <3> QED BY <2>1, <3>3, <3>4 DEF FarComplete, RunOps, Wanted
  <2> QED BY <2>2, <2>3
<1>4. CASE \E q \in Run : FarQuiet /\ (Moves(q) \/ Publishes(q) \/ Damages(q))
  <2>1. PICK q \in Run : FarQuiet /\ (Moves(q) \/ Publishes(q) \/ Damages(q)) BY <1>4
  <2>2. want' = want BY <2>1 DEF FarQuiet
  <2>w. \A n : Wanted(r, n)' <=> Wanted(r, n) BY <2>2 DEF Wanted
  <2>3. CASE Damages(q) BY <2>2, <2>3, FarStays DEF Damages
  <2>4. CASE q # r /\ (Moves(q) \/ Publishes(q))
    <3>1. far'[r] = far[r] /\ put'[r] = put[r] BY <1>0, <2>4 DEF Moves, Publishes, Types
    <3> QED BY <2>2, <3>1, FarStays
  <2>5. CASE q = r /\ Moves(r)
    <3>1. UNCHANGED <<parcel, put>> /\ far[r].at # "none" BY <2>5 DEF Moves
    <3>2. RunOps(r)' = RunOps(r) BY <2>w DEF RunOps
    <3>3. \A n \in RunOps(r) : parcel'[r][n] # NoEntry BY <1>0, <3>1 DEF FarComplete
    <3>4. CASE /\ far[r].at = "decode" /\ far'[r].at = "stage" /\ far'[r].i = far[r].i
               /\ far'[r].staged = far[r].staged /\ far'[r].bad = far[r].bad
      <4>1. far'[r].i = 1 BY <1>0, <3>4 DEF FarComplete
      <4> QED BY <1>o, <3>2, <3>3, <3>4, <4>1 DEF FarComplete
    <3>5. CASE far'[r].at \in {"failed", "dead"} BY <3>2, <3>3, <3>5 DEF FarComplete
    <3>6. CASE far[r].at \in {"stage", "rebuild"} /\ Handles(r)
      <4> DEFINE n == Order[far[r].i]
      <4>1. far[r].i <= Len(Order) /\ far'[r].at = "stage" /\ far'[r].i = far[r].i + 1 BY <3>6 DEF Handles
      <4>2. n \in Names BY <1>i, <1>o, <4>1
      <4>3. \A j \in 1..Len(Order) : j < far'[r].i => j < far[r].i \/ j = far[r].i BY <1>i, <1>o, <4>1
      <4>4. ASSUME ~far'[r].bad, NEW j \in 1..Len(Order), j < far'[r].i, Wanted(r, Order[j])
            PROVE  far'[r].staged[Order[j]] # Gone
        <5>1. \/ ~Wanted(r, n) /\ far'[r].staged = far[r].staged /\ far'[r].bad = far[r].bad
              \/ /\ Wanted(r, n) /\ far'[r].bad = far[r].bad /\ parcel[r][n] # NoEntry
                 /\ far'[r].staged = [far[r].staged EXCEPT ![n] = parcel[r][n].hash]
          BY <3>6, <4>4 DEF Handles
        <5>2. ~far[r].bad BY <4>4, <5>1
        <5>3. j < far[r].i => far[r].staged[Order[j]] # Gone BY <1>0, <3>6, <4>4, <5>2 DEF FarComplete
        <5>4. CASE ~Wanted(r, n) /\ far'[r].staged = far[r].staged
          <6>1. j < far[r].i BY <4>3, <4>4, <5>4
          <6> QED BY <5>3, <5>4, <6>1
        <5>5. CASE parcel[r][n] # NoEntry /\ far'[r].staged = [far[r].staged EXCEPT ![n] = parcel[r][n].hash]
          <6>1. IsEntry(parcel[r][n]) BY <1>0, <4>2, <5>5 DEF Types
          <6>2. parcel[r][n].hash # Gone BY <6>1, DataIsSeq DEF IsEntry
          <6>3. Order[j] = n => far'[r].staged[Order[j]] # Gone BY <1>i, <4>2, <5>5, <6>2
          <6>4. Order[j] # n => far'[r].staged[Order[j]] = far[r].staged[Order[j]] BY <1>i, <1>o, <5>5
          <6> QED BY <4>3, <4>4, <5>3, <6>3, <6>4
        <5> QED BY <5>1, <5>4, <5>5
      <4> QED BY <2>w, <3>2, <3>3, <4>1, <4>4 DEF FarComplete
    <3>7. CASE /\ far[r].at = "stage" /\ far'[r].at = "rebuild" /\ far'[r].i = far[r].i /\ far[r].i <= Len(Order)
               /\ Wanted(r, Order[far[r].i]) /\ far'[r].staged = far[r].staged /\ far'[r].bad = far[r].bad
      BY <1>0, <2>w, <3>2, <3>3, <3>7 DEF FarComplete
    <3>8. CASE /\ far[r].at = "stage" /\ far[r].i > Len(Order) /\ ~far[r].bad
               /\ far'[r].at = "apply" /\ far'[r].i = 1 /\ far'[r].staged = far[r].staged
      <4>1. \A j \in 1..Len(Order) : j < far[r].i BY <1>i, <1>o, <3>8
      <4>2. \A j \in 1..Len(Order) : Wanted(r, Order[j]) => far[r].staged[Order[j]] # Gone
        BY <1>0, <3>8, <4>1 DEF FarComplete
      <4>3. \A n \in RunOps(r) : far'[r].staged[n] # Gone BY <3>8, <4>2, OrderNames DEF RunOps
      <4>4. \A j \in 1..Len(Order) : ~(j < far'[r].i) BY <1>o, <3>8
      <4> QED BY <3>2, <3>3, <3>8, <4>3, <4>4 DEF FarComplete
    <3>9. CASE /\ far[r].at = "apply" /\ far[r].i > Len(Order) /\ ~far[r].bad
               /\ far'[r].at = "done" /\ far'[r].staged = far[r].staged
      <4>1. \A j \in 1..Len(Order) : j < far[r].i BY <1>i, <1>o, <3>9
      <4>2. \A j \in 1..Len(Order) : Wanted(r, Order[j]) => put[r][Order[j]] # Gone
        BY <1>0, <3>9, <4>1 DEF FarComplete
      <4>3. \A n \in RunOps(r) : put'[r][n] # Gone BY <3>1, <4>2, OrderNames DEF RunOps
      <4> QED BY <3>2, <3>3, <3>9, <4>3 DEF FarComplete
    <3> QED BY <2>5, <3>4, <3>5, <3>6, <3>7, <3>8, <3>9 DEF Moves
  <2>6. CASE q = r /\ Publishes(r)
    <3> DEFINE n == Order[far[r].i]
               new == far[r].staged[n]
    <3>1. /\ parcel' = parcel /\ far[r].at = "apply" /\ far'[r].at = "apply"
          /\ far'[r].i = far[r].i + 1 /\ far[r].i <= Len(Order) /\ far'[r].staged = far[r].staged
      BY <2>6 DEF Publishes
    <3>2. RunOps(r)' = RunOps(r) BY <2>w DEF RunOps
    <3>3. \A m \in RunOps(r) : parcel[r][m] # NoEntry /\ far[r].staged[m] # Gone BY <1>0, <3>1 DEF FarComplete
    <3>4. n \in Names BY <1>0, <2>6, PublishedNames
    <3>5. \A j \in 1..Len(Order) : j < far'[r].i => j < far[r].i \/ j = far[r].i BY <1>i, <1>o, <3>1
    <3>6. ASSUME ~far'[r].bad, NEW j \in 1..Len(Order), j < far'[r].i, Wanted(r, Order[j])
          PROVE  put'[r][Order[j]] # Gone
      <4>1. /\ ~far[r].bad
            /\ \/ Wanted(r, n) /\ put' = [put EXCEPT ![r][n] = new]
               \/ ~Wanted(r, n) /\ put' = put
        BY <2>6, <3>6 DEF Publishes
      <4>2. j < far[r].i => put[r][Order[j]] # Gone BY <1>0, <3>1, <3>6, <4>1 DEF FarComplete
      <4>3. CASE Wanted(r, n) /\ put' = [put EXCEPT ![r][n] = new]
        <5>1. new # Gone BY <3>3, <3>4, <4>3 DEF RunOps
        <5>2. Order[j] = n => put'[r][Order[j]] # Gone BY <1>0, <3>4, <4>3, <5>1 DEF Types
        <5>3. Order[j] # n => put'[r][Order[j]] = put[r][Order[j]] BY <1>0, <1>o, <4>3 DEF Types
        <5> QED BY <3>5, <3>6, <4>2, <5>2, <5>3
      <4>4. CASE ~Wanted(r, n) /\ put' = put BY <3>5, <3>6, <4>2, <4>4
      <4> QED BY <4>1, <4>3, <4>4
    <3> QED BY <2>w, <3>1, <3>2, <3>3, <3>6 DEF FarComplete
  <2> QED BY <2>1, <2>3, <2>4, <2>5, <2>6
<1>5. (NearQuiet /\ (GoesOn \/ Packs)) \/ (\E how : AnyEnd(how)) \/ Edits => UNCHANGED <<far, put, want>>
  BY DEF NearQuiet, AnyEnd, Edits
<1> QED BY <1>1, <1>2, <1>3, <1>4, <1>5, AllSteps

LEMMA CompleteStep ==
  ASSUME Inv, PeerNext
  PROVE  Complete'
<1>1. NearComplete' /\ \A r \in Run : FarComplete(r)' BY NearCompleteStep, FarCompleteStep
<1> QED BY <1>1 DEF Complete, NearComplete, FarComplete
-----------------------------------------------------------------------------
(* What nobody changed here travels as it is.                              *)

\* The far root has held what it holds and what was ever published.
Kept ==
  /\ \A n \in Names : peer[n] \in seen[n]
  /\ \A n \in Names, r \in Run : put[r][n] # Gone => put[r][n] \in seen[n]

\* File n, which nobody changed since the comparison, in the run at hand.
Travels(n) ==
  /\ Wanted(near.run, n) => want[near.run][n].data = source[n].data
  /\ ~Wanted(near.run, n) => source[n].data \in seen[n]
  /\ parcel[near.run][n] # NoEntry => parcel[near.run][n].hash = source[n].data
  /\ far[near.run].staged[n] # Gone => far[near.run].staged[n] = source[n].data
  /\ put[near.run][n] # Gone => put[near.run][n] = source[n].data

\* A pass over a file that nobody changed has read its beginning.
Reads ==
  /\ near.at \in {"first", "second"} /\ Name \notin stale =>
       /\ Len(near.read) <= Len(source[Name].data)
       /\ \A k \in 1..Len(near.read) : near.read[k] = source[Name].data[k]
  /\ near.at = "second" /\ Name \notin stale => near.first = source[Name].data

LEMMA FreshParts ==
  Fresh <=> /\ Kept /\ Reads
            /\ near.at # "idle" => \A n \in Names \ stale : Travels(n)
BY DEF Fresh, Kept, Reads, Travels

\* A pass that is over has read the whole file.
LEMMA PassReadsAll ==
  ASSUME Types, Phases, Reads, near.at \in {"first", "second"}, ~More, Name \notin stale
  PROVE  near.read = source[Name].data
<1>1. near.read \in Seq(Piece) /\ near.i \in 1..(Len(Order) + 1) /\ near.i <= Len(Order)
  BY DEF Types, NearType, Phases
<1>2. Name \in Names BY <1>1, OrderNames DEF Name
<1>3. source[Name].data \in Seq(Piece) BY <1>2, DataIsSeq DEF Types
<1>4. Len(near.read) \in Nat /\ Len(source[Name].data) \in Nat BY <1>1, <1>3, LenProperties
<1>5. Len(near.read) = Len(source[Name].data) BY <1>4 DEF Reads, More
<1>6. \A k \in 1..Len(near.read) : near.read[k] = source[Name].data[k] BY DEF Reads
<1> QED BY <1>1, <1>3, <1>5, <1>6, SeqEqual

LEMMA KeptStep ==
  ASSUME Inv, PeerNext
  PROVE  Kept'
<1>0. Types /\ Kept BY FreshParts DEF Inv
<1>1. CASE UNCHANGED <<peer, put, seen>> BY <1>0, <1>1 DEF Kept
<1>2. CASE \E r \in Run : Publishes(r)
  <2>1. PICK r \in Run : Publishes(r) BY <1>2
  <2> DEFINE n == Order[far[r].i]
             new == far[r].staged[n]
  <2>2. n \in Names BY <1>0, <2>1, PublishedNames
  <2>3. \/ UNCHANGED <<peer, put, seen>>
        \/ /\ peer' = [peer EXCEPT ![n] = new] /\ put' = [put EXCEPT ![r][n] = new]
           /\ seen' = [seen EXCEPT ![n] = seen[n] \cup {new}]
    BY <2>1 DEF Publishes
  <2> HIDE DEF n, new
  <2>4. CASE /\ peer' = [peer EXCEPT ![n] = new] /\ put' = [put EXCEPT ![r][n] = new]
             /\ seen' = [seen EXCEPT ![n] = seen[n] \cup {new}]
    <3>1. /\ seen'[n] = seen[n] \cup {new} /\ peer'[n] = new
          /\ \A m \in Names : m # n => seen'[m] = seen[m] /\ peer'[m] = peer[m]
      BY <1>0, <2>2, <2>4 DEF Types
    <3>2. \A q \in Run, m \in Names : put'[q][m] = put[q][m] \/ (m = n /\ put'[q][m] = new)
      BY <1>0, <2>2, <2>4 DEF Types
    <3>3. \A m \in Names : seen[m] \subseteq seen'[m] BY <3>1
    <3>4. \A m \in Names : peer'[m] \in seen'[m] BY <1>0, <3>1 DEF Kept
    <3>5. \A m \in Names, q \in Run : put'[q][m] # Gone => put'[q][m] \in seen'[m]
      BY <1>0, <3>1, <3>2, <3>3 DEF Kept
    <3> QED BY <3>4, <3>5 DEF Kept
  <2> QED BY <1>1, <2>3, <2>4
<1>3. CASE Edits
  <2>1. put' = put BY <1>3 DEF Edits
  <2>2. CASE UNCHANGED <<peer, seen>> BY <1>1, <2>1, <2>2
  <2>3. CASE \E n \in Names, d \in Data \cup {Gone} :
               peer' = [peer EXCEPT ![n] = d] /\ seen' = [seen EXCEPT ![n] = @ \cup {d}]
    <3>1. PICK n \in Names, d \in Data \cup {Gone} :
                 peer' = [peer EXCEPT ![n] = d] /\ seen' = [seen EXCEPT ![n] = seen[n] \cup {d}]
      BY <2>3
    <3>2. \A m \in Names : (m = n /\ peer'[m] = d /\ seen'[m] = seen[m] \cup {d})
                           \/ (peer'[m] = peer[m] /\ seen'[m] = seen[m])
      BY <1>0, <3>1 DEF Types
    <3> QED BY <1>0, <2>1, <3>2 DEF Kept
  <2> QED BY <1>3, <2>2, <2>3 DEF Edits
<1>4. UNCHANGED <<peer, put, seen>> \/ (\E r \in Run : Publishes(r)) \/ Edits
  BY <1>0, AllSteps, NewRunIsNew DEF NearQuiet, AnyEnd, Launch, Moves, Damages, Inv
<1> QED BY <1>1, <1>2, <1>3, <1>4

LEMMA ReadsStep ==
  ASSUME Inv, PeerNext
  PROVE  Reads'
<1>0. Types /\ Phases /\ Reads BY FreshParts DEF Inv
<1>1. CASE NearQuiet /\ GoesOn
  <2>1. UNCHANGED <<source, stale>> BY <1>1 DEF NearQuiet
  <2>2. CASE near' = near BY <1>0, <2>1, <2>2 DEF Reads, Name
  <2>3. CASE near'.at \notin {"first", "second"} BY <2>3 DEF Reads
  <2>4. CASE near.at = "open" /\ near'.at = "first" /\ near'.read = << >>
             /\ near.i <= Len(Order) /\ near'.i = near.i
    <3>1. near.i \in 1..Len(Order) BY <1>0, <2>4, OrderNames DEF Types, NearType
    <3>2. Order[near.i] \in Names BY <3>1, OrderNames
    <3>3. Len(source[Order[near.i]].data) \in Nat BY <1>0, <3>2, DataIsSeq DEF Types
    <3> QED BY <2>1, <2>4, <3>3 DEF Reads, Name
  <2>5. CASE /\ near.at \in {"first", "second"} /\ near'.at = near.at /\ near'.i = near.i
             /\ near'.first = near.first /\ Len(near.read) < Len(source[Name].data)
             /\ near'.read = Append(near.read, source[Name].data[Len(near.read) + 1])
    <3>1. near.i \in 1..Len(Order) /\ near.read \in Seq(Piece)
      <4>1. near.i \in 1..(Len(Order) + 1) /\ near.read \in Seq(Piece) BY <1>0 DEF Types, NearType
      <4>2. near.i <= Len(Order) BY <1>0, <2>5 DEF Phases
      <4> QED BY <4>1, <4>2, OrderNames
    <3>2. Name \in Names BY <3>1, OrderNames DEF Name
    <3>3. source[Name].data \in Seq(Piece) BY <1>0, <3>2, DataIsSeq DEF Types
    <3> DEFINE s == source[Name].data
               l == Len(near.read)
    <3>4. l \in Nat /\ Len(s) \in Nat /\ l < Len(s) BY <2>5, <3>1, <3>3, LenProperties
    <3>5. s[l + 1] \in Piece BY <3>3, <3>4
    <3>6. Len(near'.read) = l + 1 /\ near'.read[l + 1] = s[l + 1] /\ \A k \in 1..l : near'.read[k] = near.read[k]
      BY <2>5, <3>1, <3>5, AppendProperties
    <3>7. Name \notin stale => \A k \in 1..l : near.read[k] = s[k] BY <1>0, <2>5 DEF Reads
    <3>8. \A k \in 1..(l + 1) : k \in 1..l \/ k = l + 1 BY <3>4
    <3>9. Name \notin stale => Len(near'.read) <= Len(s) /\ \A k \in 1..Len(near'.read) : near'.read[k] = s[k]
      <4> HIDE DEF s, l
      <4>1. Name \notin stale => \A k \in 1..l : near'.read[k] = s[k] BY <3>6, <3>7
      <4>2. Name \notin stale => \A k \in 1..(l + 1) : near'.read[k] = s[k] BY <3>6, <3>8, <4>1
      <4> QED BY <3>4, <3>6, <4>2
    <3>10. near.at = "second" /\ Name \notin stale => near'.first = s BY <1>0, <2>5 DEF Reads
    <3>11. Name' = Name BY <2>5 DEF Name
    <3> QED BY <2>1, <2>5, <3>9, <3>10, <3>11 DEF Reads
  <2>6. CASE /\ near.at = "first" /\ near'.at = "second" /\ near'.i = near.i
             /\ near'.first = near.read /\ near'.read = << >> /\ ~More
    <3>1. Name \notin stale => near.read = source[Name].data BY <1>0, <2>6, PassReadsAll
    <3>2. near.i \in 1..Len(Order)
      <4>1. near.i \in 1..(Len(Order) + 1) BY <1>0 DEF Types, NearType
      <4>2. near.i <= Len(Order) BY <1>0, <2>6 DEF Phases
      <4> QED BY <4>1, <4>2, OrderNames
    <3>3. Name \in Names BY <3>2, OrderNames DEF Name
    <3>4. Len(source[Name].data) \in Nat BY <1>0, <3>3, DataIsSeq DEF Types
    <3> QED BY <2>1, <2>6, <3>1, <3>4 DEF Reads, Name
  <2> QED BY <1>1, <2>2, <2>3, <2>4, <2>5, <2>6 DEF GoesOn
<1>2. CASE near'.at \notin {"first", "second"} BY <1>2 DEF Reads
<1>3. CASE UNCHANGED <<near, source, stale>> BY <1>0, <1>3 DEF Reads, Name
<1>4. CASE Edits
  <2>1. near' = near BY <1>4 DEF Edits
  <2>2. CASE UNCHANGED <<source, stale>> BY <1>3, <2>1, <2>2
  <2>3. CASE \E n \in Names : stale' = stale \cup {n} /\ \A m \in Names \ {n} : source'[m] = source[m]
    <3>1. PICK n \in Names : stale' = stale \cup {n} /\ \A m \in Names \ {n} : source'[m] = source[m] BY <2>3
    <3>2. near.at \in {"first", "second"} => Name \in Names
      <4>1. near.i \in 1..(Len(Order) + 1) BY <1>0 DEF Types, NearType
      <4>2. near.at \in {"first", "second"} => near.i <= Len(Order) BY <1>0 DEF Phases
      <4> QED BY <4>1, <4>2, OrderNames DEF Name
    <3>3. near.at \in {"first", "second"} /\ Name \notin stale' => source'[Name] = source[Name] /\ Name \notin stale
      BY <3>1, <3>2
    <3> QED BY <1>0, <2>1, <3>3 DEF Reads, Name
  <2> QED BY <1>4, <2>2, <2>3 DEF Edits
<1>5. (NearQuiet /\ Packs) \/ (\E how : AnyEnd(how)) \/ ComparePeer \/ Launch => near'.at \notin {"first", "second"}
  BY <1>0, NewRunIsNew DEF Packs, AnyEnd, Ends, Rest, Launch, Go, Types, NearType
<1>6. (\E r \in Run : FarQuiet /\ (Moves(r) \/ Publishes(r) \/ Damages(r))) => UNCHANGED <<near, source, stale>>
  BY DEF FarQuiet
<1> QED BY <1>1, <1>2, <1>3, <1>4, <1>5, <1>6, AllSteps

LEMMA TravelsStep ==
  ASSUME Inv, PeerNext, near'.at # "idle", NEW n \in Names \ stale'
  PROVE  Travels(n)'
<1>0. /\ Types /\ Phases /\ Kept /\ Reads
      /\ near.at # "idle" => \A m \in Names \ stale : Travels(m)
  BY FreshParts DEF Inv
<1>r. near.at # "idle" => near.run \in Run BY <1>0, RunFacts DEF Phases, Types, NearType
<1>1. CASE NearQuiet /\ GoesOn
  <2>1. near'.run = near.run /\ near.at # "idle" /\ UNCHANGED <<source, stale, want, parcel, far, put, seen>>
    BY <1>1 DEF NearQuiet, GoesOn
  <2>2. Travels(n) BY <1>0, <2>1
  <2> QED BY <2>1, <2>2 DEF Travels, Wanted
<1>2. CASE NearQuiet /\ Packs
  <2>1. near'.run = near.run /\ near.at \in {"first", "second"} /\ UNCHANGED <<source, stale, want, far, put, seen>>
    BY <1>2 DEF NearQuiet, Packs
  <2>2. Travels(n) BY <1>0, <2>1
  <2>3. PICK e : /\ IsEntry(e) /\ parcel' = [parcel EXCEPT ![near.run][Name] = e]
                 /\ \/ near.at = "first" /\ e.hash = near.read /\ ~More
                    \/ near.at = "second" /\ e.hash = near.first
    BY <1>0, <1>2, EntryIsHonest DEF Inv
  <2>4. n = Name => e.hash = source[n].data
    <3>1. CASE near.at = "first" /\ e.hash = near.read /\ ~More BY <1>0, <2>1, <3>1, PassReadsAll
    <3>2. CASE near.at = "second" /\ e.hash = near.first BY <1>0, <2>1, <3>2 DEF Reads
    <3> QED BY <2>3, <3>1, <3>2
  <2>5. parcel'[near.run][n] = parcel[near.run][n] \/ (n = Name /\ parcel'[near.run][n] = e)
    BY <1>0, <1>r, <2>1, <2>3 DEF Types
  <2> QED BY <2>1, <2>2, <2>4, <2>5 DEF Travels, Wanted
<1>3. CASE ComparePeer
  <2>1. /\ near'.run \in Run /\ UNCHANGED <<source, peer, parcel, far, put, seen>>
        /\ far[near'.run] = Idle /\ parcel[near'.run][n] = NoEntry /\ put[near'.run][n] = Gone
        /\ want'[near'.run] = [m \in Names |-> IF peer[m] # source[m].data THEN source[m]
                                               ELSE [data |-> Gone, mtime |-> 0]]
    BY <1>0, <1>3, NewRunIsNew
  <2>2. Idle.staged[n] = Gone BY DEF Idle
  <2>3. source[n].data # Gone BY <1>0, DataIsSeq DEF Types
  <2>4. peer[n] \in seen[n] BY <1>0 DEF Kept
  <2>5. CASE peer[n] # source[n].data
    <3>1. want'[near'.run][n] = source[n] BY <2>1, <2>5
    <3> QED BY <2>1, <2>2, <2>3, <3>1 DEF Travels, Wanted
  <2>6. CASE peer[n] = source[n].data
    <3>1. want'[near'.run][n].data = Gone BY <2>1, <2>6
    <3> QED BY <2>1, <2>2, <2>4, <2>6, <3>1 DEF Travels, Wanted
  <2> QED BY <2>5, <2>6
<1>4. CASE Launch
  <2>1. /\ near.at = "launch" /\ near'.run = near.run /\ far' = [far EXCEPT ![near.run].at = "decode"]
        /\ UNCHANGED <<source, stale, want, parcel, put, seen>>
    BY <1>0, <1>4 DEF Launch, Go, ThisRun, Types, NearType
  <2>2. far'[near.run].staged = far[near.run].staged BY <1>0, <1>r, <2>1 DEF Types, FarType
  <2>3. Travels(n) BY <1>0, <2>1
  <2> QED BY <2>1, <2>2, <2>3 DEF Travels, Wanted
<1>5. CASE \E r \in Run : FarQuiet /\ (Moves(r) \/ Publishes(r) \/ Damages(r))
  <2>1. PICK r \in Run : FarQuiet /\ (Moves(r) \/ Publishes(r) \/ Damages(r)) BY <1>5
  <2>2. UNCHANGED <<near, want, source, stale>> BY <2>1 DEF FarQuiet
  <2>3. Travels(n) /\ near.run \in Run BY <1>0, <1>r, <2>2
  <2>4. CASE Moves(r)
    <3>1. UNCHANGED <<parcel, put, seen>> BY <2>4 DEF Moves
    <3>2. \/ far'[near.run].staged[n] = far[near.run].staged[n]
          \/ parcel[near.run][n] # NoEntry /\ far'[near.run].staged[n] = parcel[near.run][n].hash
      <4>1. /\ far'[r].staged = far[r].staged
               \/ \E m \in Names : /\ parcel[r][m] # NoEntry
                                   /\ far'[r].staged = [far[r].staged EXCEPT ![m] = parcel[r][m].hash]
            /\ \A q \in Run \ {r} : far'[q] = far[q]
        BY <1>0, <2>4, StagedMoves
      <4>2. CASE r # near.run \/ far'[r].staged = far[r].staged BY <2>3, <4>1, <4>2
      <4>3. CASE r = near.run /\ \E m \in Names : /\ parcel[r][m] # NoEntry
                                                  /\ far'[r].staged = [far[r].staged EXCEPT ![m] = parcel[r][m].hash]
        <5>1. far[r].staged \in [Names -> Data \cup {Gone}] BY <1>0 DEF Types, FarType
        <5> QED BY <4>3, <5>1
      <4> QED BY <4>1, <4>2, <4>3
    <3> QED BY <2>2, <2>3, <3>1, <3>2 DEF Travels, Wanted
  <2>5. CASE Publishes(r)
    <3> DEFINE m == Order[far[r].i]
               new == far[r].staged[m]
    <3>1. m \in Names BY <1>0, <2>5, PublishedNames
    <3>2. \/ UNCHANGED <<peer, put, seen>>
          \/ put' = [put EXCEPT ![r][m] = new] /\ seen' = [seen EXCEPT ![m] = seen[m] \cup {new}]
      BY <2>5 DEF Publishes
    <3> HIDE DEF m
    <3>3. put'[near.run][n] = put[near.run][n] \/ put'[near.run][n] = far[near.run].staged[n]
      <4>1. CASE put' = put BY <4>1
      <4>2. CASE put' = [put EXCEPT ![r][m] = new] /\ r = near.run /\ n = m BY <1>0, <2>3, <3>1, <4>2 DEF Types, m
      <4>3. CASE put' = [put EXCEPT ![r][m] = new] /\ (r # near.run \/ n # m) BY <1>0, <2>3, <3>1, <4>3 DEF Types
      <4> QED BY <3>2, <4>1, <4>2, <4>3
    <3>4. seen[n] \subseteq seen'[n] BY <1>0, <3>1, <3>2 DEF Types
    <3>5. parcel' = parcel /\ far'[near.run].staged = far[near.run].staged BY <2>3, <2>5 DEF Publishes
    <3> QED BY <2>2, <2>3, <3>3, <3>4, <3>5 DEF Travels, Wanted
  <2>6. CASE Damages(r)
    <3>1. UNCHANGED <<far, put, seen>> BY <2>6 DEF Damages
    <3>2. PICK m \in Names, p \in Piece : parcel[r][m] # NoEntry /\ parcel' = [parcel EXCEPT ![r][m].data[1] = p]
      BY <2>6 DEF Damages
    <3>3. IsEntry(parcel[r][m]) BY <1>0, <3>2 DEF Types
    <3>4. parcel'[r][m].hash = parcel[r][m].hash BY <1>0, <3>2, <3>3 DEF Types, IsEntry
    <3>5. (near.run # r \/ n # m) => parcel'[near.run][n] = parcel[near.run][n] BY <1>0, <2>3, <3>2 DEF Types
    <3>6. \/ parcel'[near.run][n] = parcel[near.run][n]
          \/ parcel[near.run][n] # NoEntry /\ parcel'[near.run][n].hash = parcel[near.run][n].hash
      BY <3>2, <3>4, <3>5
    <3> QED BY <2>2, <2>3, <3>1, <3>6 DEF Travels, Wanted
  <2> QED BY <2>1, <2>4, <2>5, <2>6
<1>6. CASE Edits
  <2>1. UNCHANGED <<near, want, parcel, far, put>> BY <1>6 DEF Edits
  <2>2. CASE /\ UNCHANGED <<peer, seen>>
             /\ \E m \in Names : stale' = stale \cup {m} /\ \A k \in Names \ {m} : source'[k] = source[k]
    <3>1. n \notin stale /\ source'[n] = source[n] BY <2>2
    <3>2. Travels(n) BY <1>0, <2>1, <3>1
    <3> QED BY <2>1, <2>2, <3>1, <3>2 DEF Travels, Wanted
  <2>3. CASE /\ UNCHANGED <<source, stale>>
             /\ \E m \in Names, d \in Data \cup {Gone} :
                  peer' = [peer EXCEPT ![m] = d] /\ seen' = [seen EXCEPT ![m] = @ \cup {d}]
    <3>1. seen[n] \subseteq seen'[n] BY <1>0, <2>3 DEF Types
    <3>2. Travels(n) BY <1>0, <2>1, <2>3
    <3> QED BY <2>1, <2>3, <3>1, <3>2 DEF Travels, Wanted
  <2> QED BY <1>6, <2>2, <2>3 DEF Edits
<1>7. ~\E how : AnyEnd(how) BY DEF AnyEnd, Ends, Rest
<1> QED BY <1>1, <1>2, <1>3, <1>4, <1>5, <1>6, <1>7, AllSteps

LEMMA FreshStep ==
  ASSUME Inv, PeerNext
  PROVE  Fresh'
<1>1. Kept' /\ Reads' BY KeptStep, ReadsStep
<1>2. near'.at # "idle" => \A n \in Names \ stale' : Travels(n)' BY TravelsStep
<1> QED BY <1>1, <1>2 DEF Fresh, Kept, Reads, Travels
-----------------------------------------------------------------------------
(* The theorems.                                                           *)

LEMMA InvStutters == Inv /\ UNCHANGED peerVars => Inv'
<1> SUFFICES ASSUME Inv, UNCHANGED peerVars PROVE Inv' OBVIOUS
<1>1. /\ UNCHANGED <<tier, source, peer, agreed, near, want, parcel, far, put, ended, started, stopped, mute>>
      /\ UNCHANGED <<stale, seen, writes, troubles>>
  BY DEF peerVars
<1>2. Types' BY <1>1 DEF Inv, Types
<1>3. Phases' BY <1>1 DEF Inv, Phases, Wanted, Name
<1>4. BeforeWrites' BY <1>1 DEF Inv, BeforeWrites
<1>5. Honest' BY <1>1 DEF Inv, Honest, Matches, Name
<1>6. Complete' BY <1>1 DEF Inv, Complete, RunOps, Wanted
<1>7. Fresh' BY <1>1 DEF Inv, Fresh, Wanted, Name
<1> QED BY <1>2, <1>3, <1>4, <1>5, <1>6, <1>7 DEF Inv

\* Both sides of an Apply to a peer stay as Inv says.
THEOREM PeerInvariant == PeerSpec => []Inv
<1>1. Inv /\ [PeerNext]_peerVars => Inv'
  BY TypesStep, PhasesStep, BeforeWritesStep, HonestStep, CompleteStep, FreshStep, InvStutters DEF Inv
<1> QED BY Initially, <1>1, PTL DEF PeerSpec

\* What is published on the far root agrees with what was compared, as far as the digest tells.
THEOREM AppliedAgrees == PeerSpec => []AppliedIsCompared
<1>1. Inv => AppliedIsCompared BY DEF Inv, Honest, AppliedIsCompared
<1> QED BY <1>1, PeerInvariant, PTL

\* A run reported to have ended before its first write never reaches the far side.
THEOREM BeforeWriteHolds == PeerSpec => []BeforeWriteIsTrue
<1>1. Inv => BeforeWriteIsTrue BY DEF Inv, Phases, BeforeWrites, BeforeWriteIsTrue
<1> QED BY <1>1, PeerInvariant, PTL

\* A clean run published every one of its operations.
THEOREM CleanHolds == PeerSpec => []CleanIsPublished
<1>1. Inv => CleanIsPublished BY DEF Inv, Phases, Complete, CleanIsPublished
<1> QED BY <1>1, PeerInvariant, PTL

LEMMA ArchiveStep ==
  ASSUME Inv, PeerNext, agreed' # agreed, NEW n \in Names \ stale
  PROVE  agreed'[n] \in seen[n]
<1>0. Types /\ Phases /\ Complete /\ Kept /\ (near.at # "idle" => Travels(n))
  BY FreshParts DEF Inv
<1>1. near.at = "refresh" /\ agreed' = [m \in Names |-> source[m].data]
  BY AllSteps DEF GoesOn, Packs, AnyEnd, Ends, ComparePeer, Launch, FarQuiet, Edits
<1>2. near.run \in Run /\ far[near.run].at = "done"
  BY <1>0, <1>1, RunFacts DEF Phases, Types, NearType
<1>3. Travels(n) /\ agreed'[n] = source[n].data BY <1>0, <1>1
<1>4. CASE Wanted(near.run, n)
  <2>1. put[near.run][n] # Gone BY <1>0, <1>2, <1>4 DEF Complete, RunOps
  <2> QED BY <1>0, <1>2, <1>3, <2>1 DEF Travels, Kept
<1>5. CASE ~Wanted(near.run, n) BY <1>3, <1>5 DEF Travels
<1> QED BY <1>4, <1>5

\* What the archive takes as agreed was on the far side, unless it was written here meanwhile.
THEOREM ArchiveHolds == PeerSpec => ArchiveWasThere
<1>1. Inv /\ [PeerNext]_peerVars => [agreed' # agreed => \A n \in Names \ stale : agreed'[n] \in seen[n]]_peerVars
  BY ArchiveStep
<1> QED BY <1>1, PeerInvariant, PTL DEF PeerSpec, ArchiveWasThere

LEMMA LateStep ==
  ASSUME Inv, PeerNext, NEW r \in Run, NEW n \in Names, put'[r][n] # put[r][n], r \notin mute,
         NEW later \in (r + 1)..Runs
  PROVE  put[later][n] = Gone
<1>0. Types /\ Phases BY DEF Inv
<1>1. far[r].at = "apply"
  <2>1. PICK q \in Run : Publishes(q)
    BY <1>0, AllSteps, NewRunIsNew DEF NearQuiet, AnyEnd, Launch, Moves, Damages, Edits
  <2>2. q = r
    <3>1. \A m : put' = [put EXCEPT ![q][m] = far[q].staged[m]] => \A p \in Run : p # q => put'[p] = put[p]
      BY <1>0 DEF Types
    <3> QED BY <2>1, <3>1 DEF Publishes
  <2> QED BY <2>1, <2>2 DEF Publishes
<1>2. later \in Run /\ later > r /\ r \in Nat /\ near.run \in Nat
  BY <1>0, RunFacts DEF Run, Types, NearType
<1>3. CASE later > near.run
  <2>1. far[later].at = "none" BY <1>0, <1>2, <1>3 DEF Phases, Idle
  <2> QED BY <1>0, <1>2, <2>1 DEF Phases
<1>4. CASE ~(later > near.run)
  <2>1. r < near.run BY <1>2, <1>4, RunFacts
  <2>2. far[r].at \in Over \cup {"none"} BY <1>0, <2>1 DEF Phases
  <2> QED BY <1>1, <2>2 DEF Over
<1> QED BY <1>3, <1>4

\* The far side of an earlier run publishes after a later run did only if its answer was lost.
THEOREM NoLateHolds == PeerSpec => NoLateOverwrite
<1> DEFINE OnTime == \A r \in Run, n \in Names :
                       put'[r][n] # put[r][n] /\ r \notin mute => \A later \in (r + 1)..Runs : put[later][n] = Gone
<1>1. Inv /\ [PeerNext]_peerVars => [OnTime]_peerVars BY LateStep
<1> QED BY <1>1, PeerInvariant, PTL DEF PeerSpec, NoLateOverwrite
-----------------------------------------------------------------------------
\* The counters stay within their limits, and no mtime is later than the last write.
Limits ==
  /\ writes \in 0..MaxWrites /\ troubles \in 0..MaxTroubles
  /\ \A n \in Names : source[n].mtime \in 0..writes

LEMMA LimitsStep ==
  ASSUME Inv, Limits, [PeerNext]_peerVars
  PROVE  Limits'
<1>0. /\ Types /\ MaxWrites \in Nat /\ MaxTroubles \in Nat
      /\ source \in [Names -> [data : Data, mtime : Nat]]
  BY DEF Inv, Types
<1> DEFINE Calm == UNCHANGED <<source, writes>> /\ (troubles' = troubles \/ Trouble)
<1>1. ASSUME NearStep PROVE Calm
  <2>1. CASE ComparePeer \/ Launch \/ Answered \/ StopRun
    BY <2>1 DEF ComparePeer, Launch, Answered, StopRun, FarAlone, peerCounts
  <2>2. CASE Table \/ StopsEarly \/ Ship \/ Refresh
    BY <2>2 DEF Table, StopsEarly, Ship, Refresh, FarAlone, peerCounts
  <2>3. CASE Open \/ ReadPiece \/ FirstOver \/ SecondOver
    BY <2>3 DEF Open, ReadPiece, FirstOver, SecondOver, PackStep, FarAlone
  <2>4. CASE AnswerLost BY <2>4 DEF AnswerLost, FarAlone
  <2> QED BY <1>1, <2>1, <2>2, <2>3, <2>4 DEF NearStep
<1>2. ASSUME NEW r \in Run, FarStep(r) PROVE Calm
  BY <1>2 DEF FarStep, Decode, Stage, Rebuild, Staged, PublishFile, FinishPack, Dies, Damage, NearAlone
<1>3. ASSUME NEW n \in Names, WriteHere(n) PROVE Limits'
  <2>1. PICK d \in Data, t \in {source[n].mtime, writes'} : source' = [source EXCEPT ![n] = [data |-> d, mtime |-> t]]
    BY <1>3 DEF WriteHere
  <2>2. writes' = writes + 1 /\ writes < MaxWrites /\ troubles' = troubles BY <1>3 DEF WriteHere
  <2>3. t \in 0..writes' BY <1>0, <2>1, <2>2 DEF Limits
  <2>4. \A m \in Names : source'[m].mtime \in {source[m].mtime, t} BY <1>0, <2>1
  <2>5. \A m \in Names : source'[m].mtime \in 0..writes' BY <1>0, <2>2, <2>3, <2>4 DEF Limits
  <2>6. writes' \in 0..MaxWrites /\ troubles' \in 0..MaxTroubles BY <1>0, <2>2 DEF Limits
  <2> QED BY <2>5, <2>6 DEF Limits
<1>4. ASSUME NEW n \in Names, WriteThere(n) PROVE Limits'
  <2>1. writes' = writes + 1 /\ writes < MaxWrites /\ UNCHANGED <<source, troubles>> BY <1>4 DEF WriteThere
  <2> QED BY <1>0, <2>1 DEF Limits
<1>5. CASE UNCHANGED peerVars BY <1>5 DEF peerVars, Limits
<1>6. CASE Calm BY <1>0, <1>6 DEF Limits, Trouble
<1> QED BY <1>1, <1>2, <1>3, <1>4, <1>5, <1>6 DEF PeerNext

\* Every variable of both sides of an Apply to a peer stays in its range.
THEOREM TypeCorrect == PeerSpec => []PeerTypeOK
<1>1. PeerInit => Limits BY DEF PeerInit, Limits
<1>2. Inv /\ Limits /\ [PeerNext]_peerVars => Limits' BY LimitsStep
<1>3. Inv /\ Limits => PeerTypeOK
  <2> SUFFICES ASSUME Types, Limits PROVE PeerTypeOK BY DEF Inv
  <2>1. source \in [Names -> [data : Data, mtime : 0..MaxWrites]]
    <3>1. \A n \in Names : source[n] \in [data : Data, mtime : Nat] BY DEF Types
    <3>2. \A n \in Names : source[n].mtime \in 0..MaxWrites BY DEF Types, Limits
    <3>3. \A n \in Names : source[n] \in [data : Data, mtime : 0..MaxWrites] BY <3>1, <3>2
    <3> QED BY <3>3 DEF Types
  <2>2. /\ near.at \in {"idle", "table", "open", "first", "second", "ship", "launch", "wait", "refresh"}
        /\ near.run \in 0..Runs /\ near.i \in 1..(Len(Order) + 1)
    BY DEF Types, NearType, Preparing, Packing
  <2>3. \A r \in Run :
       /\ far[r].at \in {"none", "decode", "stage", "rebuild", "apply"} \cup Over
       /\ far[r].staged \in [Names -> Data \cup {Gone}] /\ put[r] \in [Names -> Data \cup {Gone}]
       /\ ended[r].how \in {"no", "clean", "errors", "error", "cancelled"}
    BY DEF Types, FarType
  <2> QED BY <2>1, <2>2, <2>3 DEF PeerTypeOK, Types, Limits
<1> QED BY <1>1, <1>2, <1>3, PeerInvariant, PTL DEF PeerSpec
====
