----------------------------- MODULE PeerPackage -----------------------------
(***************************************************************************)
(* The Apply of a job whose target is a peer: this side packs what the     *)
(* target needs, ships the package over ssh and has the far side apply it. *)
(*                                                                         *)
(*   near   application/run/peer/apply, workflow/transfer/pack/creation    *)
(*   wire   workflow/transfer/peer.rs                                      *)
(*   far    workflow/transfer/pack/application, `syncdash apply-pack`      *)
(*                                                                         *)
(* A file is a sequence of pieces, which stand for its FastCDC chunks, and *)
(* a hash is what was hashed.  A source file is read piece by piece while  *)
(* people write it; the far side is a process of its own, which outlives a *)
(* lost connection.  The job is a two-way one; its comparison is one step  *)
(* (SyncCycle looks inside it), so is the transaction of one file on the   *)
(* far side (FileTransaction).  Links, deletions, modes and the operations *)
(* that pull through a mount are not here.                                 *)
(***************************************************************************)
EXTENDS Naturals, Sequences, FiniteSets

CONSTANTS
  Piece,      \* the chunks files are made of
  Order,      \* the names of the files, in the order of the plan
  Large,      \* those of DELTA_MIN_SIZE and more
  Longest,    \* bound: pieces of a file
  Beginnings, \* what both roots hold at first
  Runs,       \* bound: runs of the job
  MaxWrites,  \* bound: changes that people make
  MaxTroubles \* bound: failures, losses, damages and deaths

Names == {Order[i] : i \in 1..Len(Order)}
Run == 1..Runs
Data == UNION {[1..n -> Piece] : n \in 1..Longest}
Gone == << >>  \* no such file

ASSUME PeerAssumption ==
  /\ Order \in Seq(Names) /\ Large \subseteq Names
  /\ Beginnings \subseteq [source : [Names -> Data], peer : [Names -> Data \cup {Gone}]]
  /\ Longest \in Nat \ {0} /\ Runs \in Nat /\ MaxWrites \in Nat /\ MaxTroubles \in Nat

NoEntry == [kind |-> "none"]

VARIABLES
  tier,       \* how Compare judges content: "full", "sampled" or no digest at all
  source,     \* the files here, with their mtimes
  peer,       \* the files of the far root
  agreed,     \* the archive of the job
  near,       \* the run on this side: its step and what it has in hand
  want,       \* what each run's plan recorded of the source of each of its operations
  parcel,     \* the entries of each run's package
  far,        \* the far side of each run
  put,        \* history: what the far side of each run published
  ended,      \* how each run was reported
  started,    \* writes_started
  stopped,    \* the user cancelled this run
  mute,       \* history: the runs whose answer was lost
  stale,      \* history: a source file changed since this run's comparison
  seen,       \* history: what the far root has held under each name
  writes, troubles

nearVars == <<near, started, stopped, ended, want, agreed>>
peerCounts == <<writes, troubles>>
peerVars == <<tier, source, peer, agreed, near, want, parcel, far, put, ended, started,
              stopped, mute, stale, seen, writes, troubles>>

Rest == [at |-> "idle", run |-> 0, i |-> 1, size |-> 0, mtime |-> 0, read |-> << >>,
         first |-> << >>, table |-> {}]
Idle == [at |-> "none", i |-> 1, staged |-> [n \in Names |-> Gone], bad |-> FALSE]
Trouble == troubles < MaxTroubles /\ troubles' = troubles + 1

PeerInit ==
  /\ tier \in {"full", "sampled", "none"}
  /\ \E b \in Beginnings :
       /\ source = [n \in Names |-> [data |-> b.source[n], mtime |-> 0]]
       /\ peer = b.peer
  /\ agreed = [n \in Names |-> Gone]
  /\ near = Rest
  /\ want = [r \in Run |-> [n \in Names |-> [data |-> Gone, mtime |-> 0]]]
  /\ parcel = [r \in Run |-> [n \in Names |-> NoEntry]]
  /\ far = [r \in Run |-> Idle]
  /\ put = [r \in Run |-> [n \in Names |-> Gone]]
  /\ ended = [r \in Run |-> [how |-> "no", writes |-> FALSE]]
  /\ started = FALSE /\ stopped = FALSE
  /\ mute = {} /\ stale = {}
  /\ seen = [n \in Names |-> {peer[n]}]
  /\ writes = 0 /\ troubles = 0

-----------------------------------------------------------------------------
(* This side.                                                              *)

ThisRun == near.run
Wanted(r, n) == want[r][n].data # Gone
RunOps(r) == {n \in Names : Wanted(r, n)}
Name == Order[near.i]

Go(at) == near' = [near EXCEPT !.at = at]

\* classify_peer_completion and finish: what is reported of the run that ends.
EndRun(how) ==
  /\ ended' = [ended EXCEPT ![ThisRun] = [how |-> how, writes |-> started]]
  /\ near' = [Rest EXCEPT !.run = ThisRun]

FarAlone == UNCHANGED <<source, peer, far, put, seen, stale, mute, writes>>

\* The comparison: an operation for every file that differs.
ComparePeer ==
  /\ near.at = "idle" /\ ThisRun < Runs
  /\ \E n \in Names : peer[n] # source[n].data
  /\ near' = [Rest EXCEPT !.at = "table", !.run = ThisRun + 1]
  /\ want' = [want EXCEPT ![ThisRun + 1] =
                [n \in Names |-> IF peer[n] # source[n].data THEN source[n]
                                 ELSE [data |-> Gone, mtime |-> 0]]]
  /\ started' = FALSE /\ stopped' = FALSE /\ stale' = {}
  /\ UNCHANGED <<tier, source, peer, agreed, parcel, far, put, ended, mute, seen, peerCounts>>

\* The peer's chunk tables of the large updates; without them everything travels whole.
Asked == {n \in RunOps(ThisRun) \cap Large : peer[n] # Gone}
Table ==
  /\ near.at = "table"
  /\ \/ near' = [near EXCEPT !.at = "open", !.table = {<<n, peer[n]>> : n \in Asked}]
        /\ UNCHANGED troubles
     \/ Asked # {} /\ Trouble /\ Go("open")
  /\ FarAlone /\ UNCHANGED <<tier, agreed, want, parcel, ended, started, stopped>>

\* A checkpoint of a cancelled run, before anything was handed to the far side.
StopsEarly ==
  /\ stopped
  /\ \/ near.at \in {"ship", "launch"}
     \/ near.at = "open" /\ near.i = 1
  /\ EndRun("cancelled")
  /\ FarAlone /\ UNCHANGED <<tier, agreed, want, parcel, started, stopped, troubles>>

PackStep == FarAlone /\ UNCHANGED <<tier, agreed, want, started, stopped, troubles>>

\* The source file is opened, and its size and mtime are those of the handle.
Open ==
  /\ near.at = "open" /\ ~(near.i = 1 /\ stopped)
  /\ IF near.i > Len(Order) THEN Go("ship")
     ELSE IF ~Wanted(ThisRun, Name) THEN near' = [near EXCEPT !.i = @ + 1]
     ELSE near' = [near EXCEPT !.at = "first", !.size = Len(source[Name].data),
                               !.mtime = source[Name].mtime, !.read = << >>]
  /\ PackStep /\ UNCHANGED <<parcel, ended>>

More == Len(near.read) < Len(source[Name].data)
ReadPiece ==
  /\ near.at \in {"first", "second"} /\ More
  /\ near' = [near EXCEPT !.read = Append(@, source[Name].data[Len(@) + 1])]
  /\ PackStep /\ UNCHANGED <<parcel, ended>>

\* Does d agree with what the plan recorded, as far as the digest of the job tells?
Matches(d, w) ==
  /\ Len(d) = Len(w.data)
  /\ tier = "full" => d = w.data
  /\ tier = "sampled" => Head(d) = Head(w.data)

\* (Mutant: the digest of a payload is not compared with the plan's.)
EvidenceBySize(d) ==
  /\ Len(d) = near.size /\ Len(d) = Len(want[ThisRun][Name].data)
  /\ near.mtime = want[ThisRun][Name].mtime

\* verify_source_evidence: what was read is what was compared.
Evidence(d) ==
  /\ Len(d) = near.size
  /\ Matches(d, want[ThisRun][Name])
  /\ near.mtime = want[ThisRun][Name].mtime

Tables == {t \in near.table : t[1] = Name}
Base == (CHOOSE t \in Tables : TRUE)[2]
Known(p) == \E j \in 1..Len(Base) : Base[j] = p
FirstAt(p) == CHOOSE j \in 1..Len(Base) : Base[j] = p /\ \A k \in 1..(j - 1) : Base[k] # p
Unknown(d) == SelectSeq(d, LAMBDA p : ~Known(p))
\* Each piece of d comes from the base or is the next one of the blob.
Recipe(d) ==
  [i \in 1..Len(d) |->
     IF Known(d[i]) THEN [from |-> "base", at |-> FirstAt(d[i])]
     ELSE [from |-> "blob", at |-> Len(Unknown(SubSeq(d, 1, i)))]]

Packed(entry) ==
  /\ parcel' = [parcel EXCEPT ![ThisRun][Name] = entry]
  /\ near' = [near EXCEPT !.at = "open", !.i = @ + 1]
  /\ UNCHANGED ended

\* The first pass is over: a whole payload is in the package, a delta is read once more.
FirstOver ==
  /\ near.at = "first" /\ ~More
  /\ IF ~Evidence(near.read) THEN EndRun("error") /\ UNCHANGED parcel
     ELSE IF Tables = {}
          THEN Packed([kind |-> "whole", hash |-> near.read, data |-> near.read])
          ELSE /\ near' = [near EXCEPT !.at = "second", !.first = near.read, !.read = << >>]
               /\ UNCHANGED <<parcel, ended>>
  /\ PackStep

\* The second pass must have read the same file (DeltaBlobReader::verify).
SecondOver ==
  /\ near.at = "second" /\ ~More
  /\ IF near.read # near.first THEN EndRun("error") /\ UNCHANGED parcel
     ELSE Packed([kind |-> "delta", hash |-> near.first, data |-> Unknown(near.read),
                  blob |-> Unknown(near.first), base |-> Base, recipe |-> Recipe(near.first)])
  /\ PackStep

\* The upload: through, or broken off with an error.
Ship ==
  /\ near.at = "ship" /\ ~stopped
  /\ \/ Go("launch") /\ UNCHANGED <<ended, troubles>>
     \/ Trouble /\ EndRun("error")
  /\ FarAlone /\ UNCHANGED <<tier, agreed, want, parcel, started, stopped>>

\* (Mutant: writes count as started only once the far side has answered.)
LaunchUnmarked ==
  /\ near.at = "launch" /\ ~stopped
  /\ Go("wait")
  /\ far' = [far EXCEPT ![ThisRun].at = "decode"]
  /\ UNCHANGED <<tier, source, peer, agreed, want, parcel, put, ended, started, stopped, mute,
                 stale, seen, peerCounts>>

\* apply-pack is handed to ssh; what may change the far side is marked before.
Launch ==
  /\ near.at = "launch" /\ ~stopped
  /\ started' = TRUE
  /\ Go("wait")
  /\ far' = [far EXCEPT ![ThisRun].at = "decode"]
  /\ UNCHANGED <<tier, source, peer, agreed, want, parcel, put, ended, stopped, mute, stale,
                 seen, peerCounts>>

\* (Mutant: a far side that is quiet while it stages is taken for one that ended.)
OverWhenQuiet == {"done", "failed", "dead", "stage"}
Over == {"done", "failed", "dead"}
\* (Mutant: a channel that closes without an exit status counts as success.)
SucceededByDefault == far[ThisRun].at \in {"done", "dead"}
\* run_status: an exit status of zero; a far side that died without one gives 255.
Succeeded == far[ThisRun].at = "done"

Answered ==
  /\ near.at = "wait" /\ far[ThisRun].at \in Over
  /\ IF ~Succeeded THEN EndRun("errors")
     ELSE IF stopped THEN EndRun("cancelled")
     ELSE Go("refresh") /\ UNCHANGED ended
  /\ FarAlone /\ UNCHANGED <<tier, agreed, want, parcel, started, stopped, troubles>>

\* The connection breaks or is quiet for 20 seconds; the far side may be at work.
AnswerLost ==
  /\ near.at = "wait" /\ Trouble
  /\ mute' = mute \cup {ThisRun}
  /\ EndRun("error")
  /\ UNCHANGED <<tier, source, peer, agreed, want, parcel, far, put, started, stopped, stale,
                 seen, writes>>

\* refresh_archive_with: a scan of the source becomes the archive.
Refresh ==
  /\ near.at = "refresh"
  /\ \/ ~stopped /\ agreed' = [n \in Names |-> source[n].data] /\ EndRun("clean")
        /\ UNCHANGED troubles
     \/ stopped /\ EndRun("cancelled") /\ UNCHANGED <<agreed, troubles>>
     \/ Trouble /\ EndRun("errors") /\ UNCHANGED agreed
  /\ FarAlone /\ UNCHANGED <<tier, want, parcel, started, stopped>>

StopRun ==
  /\ near.at # "idle" /\ ~stopped /\ stopped' = TRUE
  /\ UNCHANGED <<tier, source, peer, agreed, near, want, parcel, far, put, ended, started, mute,
                 stale, seen, peerCounts>>

-----------------------------------------------------------------------------
(* The far side of run r.                                                  *)

NearAlone == UNCHANGED <<tier, source, nearVars, mute, stale, writes>>
FileAt(r) == Order[far[r].i]
Bring(r, new) == far' = [far EXCEPT ![r] = new]
NextFile(r, staged, bad) ==
  Bring(r, [far[r] EXCEPT !.at = "stage", !.i = @ + 1, !.staged = staged, !.bad = bad])
KeepFile(r, d) == NextFile(r, [far[r].staged EXCEPT ![FileAt(r)] = d], far[r].bad)
RejectFile(r) == NextFile(r, far[r].staged, TRUE)

\* The package is whole and agrees with itself; without its root the far side refuses.
Decode(r) ==
  /\ far[r].at = "decode"
  /\ \/ Bring(r, [far[r] EXCEPT !.at = "stage"]) /\ UNCHANGED troubles
     \/ Trouble /\ Bring(r, [far[r] EXCEPT !.at = "failed"])
  /\ NearAlone /\ UNCHANGED <<peer, parcel, put, seen>>

\* stage_payloads, one payload: a whole one is hashed; of a delta the blob and the base.
Stage(r) ==
  /\ far[r].at = "stage" /\ far[r].i <= Len(Order)
  /\ LET n == FileAt(r)
         e == parcel[r][n]
         intact == IF e.kind = "whole" THEN e.data = e.hash ELSE e.data = e.blob /\ peer[n] = e.base
     IN  \/ ~Wanted(r, n) /\ Bring(r, [far[r] EXCEPT !.i = @ + 1])
         \/ Wanted(r, n) /\ ~intact /\ RejectFile(r)
         \/ Wanted(r, n) /\ intact /\ e.kind = "whole" /\ KeepFile(r, e.data)
         \/ Wanted(r, n) /\ intact /\ e.kind = "delta" /\ Bring(r, [far[r] EXCEPT !.at = "rebuild"])
  /\ NearAlone /\ UNCHANGED <<peer, parcel, put, seen, troubles>>

Reached(e, b) == \A i \in 1..Len(e.recipe) : e.recipe[i].from = "base" => e.recipe[i].at <= Len(b)
Rebuilt(e, b) ==
  [i \in 1..Len(e.recipe) |->
     IF e.recipe[i].from = "base" THEN b[e.recipe[i].at] ELSE e.data[e.recipe[i].at]]

\* The recipe is followed on the base as it is by now, and the result is hashed.
Rebuild(r) ==
  /\ far[r].at = "rebuild"
  /\ LET e == parcel[r][FileAt(r)]
     IN  IF Reached(e, peer[FileAt(r)]) /\ Rebuilt(e, peer[FileAt(r)]) = e.hash
         THEN KeepFile(r, e.hash) ELSE RejectFile(r)
  /\ NearAlone /\ UNCHANGED <<peer, parcel, put, seen, troubles>>

\* One payload that failed refuses all; otherwise the lease of the root is asked for.
Staged(r) ==
  /\ far[r].at = "stage" /\ far[r].i > Len(Order)
  /\ LET free == \A other \in Run \ {r} : far[other].at # "apply"
     IN  Bring(r, [far[r] EXCEPT !.i = 1, !.bad = FALSE,
                     !.at = IF far[r].bad \/ ~free THEN "failed" ELSE "apply"])
  /\ NearAlone /\ UNCHANGED <<peer, parcel, put, seen, troubles>>

\* Operations run one by one; one that fails is counted and the others go on.
PublishFile(r) ==
  /\ far[r].at = "apply" /\ far[r].i <= Len(Order)
  /\ LET n == FileAt(r)
         new == far[r].staged[n]
     IN  \/ /\ Wanted(r, n)
            /\ peer' = [peer EXCEPT ![n] = new] /\ put' = [put EXCEPT ![r][n] = new]
            /\ seen' = [seen EXCEPT ![n] = @ \cup {new}]
            /\ Bring(r, [far[r] EXCEPT !.i = @ + 1]) /\ UNCHANGED troubles
         \/ /\ Wanted(r, n) /\ Trouble
            /\ Bring(r, [far[r] EXCEPT !.i = @ + 1, !.bad = TRUE])
            /\ UNCHANGED <<peer, put, seen>>
         \/ /\ ~Wanted(r, n)
            /\ Bring(r, [far[r] EXCEPT !.i = @ + 1])
            /\ UNCHANGED <<peer, put, seen, troubles>>
  /\ NearAlone /\ UNCHANGED parcel

\* The exit status of apply-pack.
FinishPack(r) ==
  /\ far[r].at = "apply" /\ far[r].i > Len(Order)
  /\ Bring(r, [far[r] EXCEPT !.at = IF far[r].bad THEN "failed" ELSE "done"])
  /\ NearAlone /\ UNCHANGED <<peer, parcel, put, seen, troubles>>

\* The process is killed, perhaps by the hangup of its connection.
Dies(r) ==
  /\ far[r].at \notin Over \cup {"none"} /\ Trouble
  /\ Bring(r, [far[r] EXCEPT !.at = "dead"])
  /\ NearAlone /\ UNCHANGED <<peer, parcel, put, seen>>

\* A payload changes on the far disk before it is staged.
Damage(r) ==
  /\ far[r].at \in {"decode", "stage"} /\ Trouble
  /\ \E i \in far[r].i .. Len(Order), p \in Piece :
       /\ Wanted(r, Order[i]) /\ parcel[r][Order[i]].data # << >>
       /\ parcel' = [parcel EXCEPT ![r][Order[i]].data[1] = p]
  /\ NearAlone /\ UNCHANGED <<peer, far, put, seen>>

-----------------------------------------------------------------------------
(* People write in place, here and there; an mtime may stay as it was.     *)

Written(d) == {[d EXCEPT ![i] = p] : i \in 1..Len(d), p \in Piece} \cup {Append(d, p) : p \in Piece}

WriteHere(n) ==
  /\ writes < MaxWrites /\ writes' = writes + 1
  /\ \E d \in Written(source[n].data), t \in {source[n].mtime, writes'} :
       d \in Data \ {source[n].data} /\ source' = [source EXCEPT ![n] = [data |-> d, mtime |-> t]]
  /\ stale' = stale \cup {n}
  /\ UNCHANGED <<tier, peer, nearVars, parcel, far, put, mute, seen, troubles>>

WriteThere(n) ==
  /\ writes < MaxWrites /\ writes' = writes + 1
  /\ \E d \in Written(peer[n]) \cup {Gone} :
       /\ d \in (Data \cup {Gone}) \ {peer[n]}
       /\ peer' = [peer EXCEPT ![n] = d] /\ seen' = [seen EXCEPT ![n] = @ \cup {d}]
  /\ UNCHANGED <<tier, source, nearVars, parcel, far, put, mute, stale, troubles>>

NearStep == ComparePeer \/ Table \/ StopsEarly \/ Open \/ ReadPiece \/ FirstOver \/ SecondOver
            \/ Ship \/ Launch \/ Answered \/ AnswerLost \/ Refresh \/ StopRun
FarStep(r) == Decode(r) \/ Stage(r) \/ Rebuild(r) \/ Staged(r) \/ PublishFile(r) \/ FinishPack(r)
              \/ Dies(r) \/ Damage(r)

PeerNext ==
  \/ NearStep
  \/ \E r \in Run : FarStep(r)
  \/ \E n \in Names : WriteHere(n) \/ WriteThere(n)

PeerSpec == PeerInit /\ [][PeerNext]_peerVars

-----------------------------------------------------------------------------
(* Properties                                                              *)

\* Every variable has its type.
PeerTypeOK ==
  /\ tier \in {"full", "sampled", "none"}
  /\ source \in [Names -> [data : Data, mtime : 0..MaxWrites]]
  /\ peer \in [Names -> Data \cup {Gone}] /\ agreed \in [Names -> Data \cup {Gone}]
  /\ near.at \in {"idle", "table", "open", "first", "second", "ship", "launch", "wait", "refresh"}
  /\ near.run \in 0..Runs /\ near.i \in 1..(Len(Order) + 1)
  /\ \A r \in Run :
       /\ far[r].at \in {"none", "decode", "stage", "rebuild", "apply"} \cup Over
       /\ far[r].staged \in [Names -> Data \cup {Gone}] /\ put[r] \in [Names -> Data \cup {Gone}]
       /\ ended[r].how \in {"no", "clean", "errors", "error", "cancelled"}
  /\ mute \subseteq Run /\ stale \subseteq Names
  /\ started \in BOOLEAN /\ stopped \in BOOLEAN
  /\ writes \in 0..MaxWrites /\ troubles \in 0..MaxTroubles

\* What reaches the far root agrees with what was compared, as far as the digest of the job
\* tells, whoever wrote the source while it was packed, the base while it was read or the package
\* (creation/payload.rs verify_source_evidence, application/staging.rs).
AppliedIsCompared ==
  \A r \in Run, n \in Names : put[r][n] # Gone => Matches(put[r][n], want[r][n])

\* A run that is reported to have ended before its first write never writes: the desktop keeps
\* its review for another try (run/mod.rs:41-46).
BeforeWriteIsTrue ==
  \A r \in Run : ended[r].how # "no" /\ ~ended[r].writes =>
    far[r].at = "none" /\ \A n \in Names : put[r][n] = Gone

\* A run that ends without error and uncancelled has published every one of its operations.
CleanIsPublished ==
  \A r \in Run : ended[r].how = "clean" => \A n \in RunOps(r) : put[r][n] # Gone

\* What the archive says both sides agreed on was on the far side, whatever was lost, damaged
\* or killed on the way (what people save during a run is the finding of SyncCycle).
ArchiveWasThere ==
  [][agreed' # agreed => \A n \in Names \ stale : agreed'[n] \in seen[n]]_peerVars

\* The far side of an earlier run replaces what a later one published only if its answer was
\* lost: otherwise the runs follow each other (peer.rs run_status).
NoLateOverwrite ==
  [][\A r \in Run, n \in Names :
       put'[r][n] # put[r][n] /\ r \notin mute =>
         \A later \in (r + 1)..Runs : put[later][n] = Gone]_peerVars
=============================================================================
