---------------------------- MODULE JobRegistry ----------------------------
(***************************************************************************)
(* The jobs directory (application/job/persistence): editors of several    *)
(* processes load, create, save, rename, change the roots of, delete and   *)
(* seed job files under one advisory lock, while a person changes the same *)
(* files with a text editor, which asks no lock. A process may die between *)
(* any two calls; its lock goes with it.                                   *)
(*                                                                         *)
(* A configuration stands for its revision, the digest of the migrated job *)
(* without its identity; `old` marks a file of an earlier schema, which    *)
(* loads as the same configuration.                                        *)
(***************************************************************************)
EXTENDS Naturals, FiniteSets

CONSTANTS
  Editor,    \* the programs that have the registry open
  JobName,   \* the names of job files
  Config,    \* configurations, told apart by their revisions
  NoFile, Nobody,
  MaxIds,    \* bound: identities that can be drawn
  MaxMutations, MaxHands, MaxMishaps  \* bounds: mutations begun; edits by hand; failed calls and crashes

ASSUME RegistryAssumption ==
  /\ JobName # {} /\ NoFile \notin Config /\ Nobody \notin Editor
  /\ MaxIds \in Nat /\ MaxMutations \in Nat /\ MaxHands \in Nat /\ MaxMishaps \in Nat

Unnamed == 0                        \* a file without job_id
Identity == 0 .. MaxIds
JobFile == [id : Identity, config : Config, old : BOOLEAN]
JobFiles == JobFile \cup {[id |-> 0, config |-> NoFile, old |-> FALSE]}
Missing == [id |-> 0, config |-> NoFile, old |-> FALSE]

Kinds == {"load", "create", "save", "roots", "delete", "seed", "reseed"}
Errand == [kind : Kinds \cup {"none"}, from : JobName, to : JobName, config : Config \cup {NoFile},
           id : Identity, rev : Config \cup {NoFile}, text : JobFiles]

VARIABLES
  files,     \* the job files, by name
  holder,    \* who has the advisory lock
  view,      \* what each editor loaded last: identity and revision of a name
  task,      \* the load or mutation each editor is in
  step,      \* where it is
  drawn,     \* identities drawn so far
  touched,   \* history: names a hand has changed since the holder looked last
  mutations, hands, mishaps

registryVars == <<files, holder, view, task, step, drawn, touched, mutations, hands, mishaps>>
counters == <<mutations, hands, mishaps>>

SomeName == CHOOSE n \in JobName : TRUE
Idle == [kind |-> "none", from |-> SomeName, to |-> SomeName, config |-> NoFile, id |-> 0,
         rev |-> NoFile, text |-> Missing]
Unseen == [n \in JobName |-> [id |-> 0, rev |-> NoFile]]

RegistryInit ==
  /\ files \in [JobName -> {Missing} \cup [id : {Unnamed}, config : Config, old : {TRUE}]]
  /\ holder = Nobody
  /\ view = [e \in Editor |-> Unseen]
  /\ task = [e \in Editor |-> Idle]
  /\ step = [e \in Editor |-> "idle"]
  /\ drawn = 0
  /\ touched = {}
  /\ mutations = 0 /\ hands = 0 /\ mishaps = 0

IsFile(n) == files[n] # Missing
Mishap == mishaps < MaxMishaps /\ mishaps' = mishaps + 1

-----------------------------------------------------------------------------
(* Loading. What the editor keeps is what it will present as expected.     *)

\* load_named, load_all: under the lock, for one name at a time. A file that has an
\* identity is read once; one without is read a second time to be given one.
LoadJob(e, n) ==
  /\ step[e] = "idle" /\ holder = Nobody
  /\ IsFile(n)
  /\ IF files[n].id # Unnamed
     THEN /\ view' = [view EXCEPT ![e][n] = [id |-> files[n].id, rev |-> files[n].config]]
          /\ UNCHANGED <<holder, task, step>>
     ELSE /\ holder' = e
          /\ task' = [task EXCEPT ![e] = [Idle EXCEPT !.kind = "load", !.from = n, !.to = n,
                                         !.config = files[n].config]]
          /\ step' = [step EXCEPT ![e] = "read"]
          /\ UNCHANGED view
  /\ UNCHANGED <<files, drawn, touched, counters>>

Leave(e) ==
  /\ step' = [step EXCEPT ![e] = "idle"]
  /\ task' = [task EXCEPT ![e] = Idle]
  /\ holder' = Nobody

\* load_registered_path reads the text that is to get the identity.
ReadText(e) ==
  /\ step[e] = "read"
  /\ IsFile(task[e].from) /\ files[task[e].from].id = Unnamed
  /\ task' = [task EXCEPT ![e].text = files[task[e].from]]
  /\ step' = [step EXCEPT ![e] = "naming"]
  /\ UNCHANGED <<files, holder, view, drawn, touched, counters>>

\* The staged write that puts the identity before the text replaces what is there by
\* then. A mutation that comes upon such a file has the wrong identity, and ends here.
NameFile(e) ==
  LET m == task[e]
  IN  /\ step[e] = "naming" /\ drawn < MaxIds
      /\ drawn' = drawn + 1
      /\ files' = [files EXCEPT ![m.from] = [m.text EXCEPT !.id = drawn + 1]]
      /\ view' = IF m.kind = "load"
                 THEN [view EXCEPT ![e][m.from] = [id |-> drawn + 1, rev |-> m.config]] ELSE view
      /\ Leave(e)
      /\ UNCHANGED <<touched, counters>>

-----------------------------------------------------------------------------
(* Mutations. Each takes the lock, looks, stages, looks again (all but a   *)
(* deletion) and publishes.                                                *)

Begin(e, m) ==
  /\ step[e] = "idle" /\ holder = Nobody
  /\ mutations < MaxMutations
  /\ mutations' = mutations + 1
  /\ holder' = e
  /\ task' = [task EXCEPT ![e] = m]
  /\ step' = [step EXCEPT ![e] = "look"]
  /\ touched' = {}
  /\ UNCHANGED <<files, view, drawn, hands, mishaps>>

BeginCreate(e, n, c) == Begin(e, [Idle EXCEPT !.kind = "create", !.from = n, !.to = n, !.config = c])

\* An editor saves, under the name it chose, the job it loaded.
BeginSave(e, n, to, c) ==
  /\ view[e][n].rev # NoFile
  /\ Begin(e, [Idle EXCEPT !.kind = "save", !.from = n, !.to = to, !.config = c,
               !.id = view[e][n].id, !.rev = view[e][n].rev])

BeginRoots(e, n, c) ==
  /\ view[e][n].rev # NoFile
  /\ Begin(e, [Idle EXCEPT !.kind = "roots", !.from = n, !.to = n, !.config = c,
               !.id = view[e][n].id, !.rev = view[e][n].rev])

BeginDelete(e, n) ==
  /\ view[e][n].rev # NoFile
  /\ Begin(e, [Idle EXCEPT !.kind = "delete", !.from = n, !.to = n,
               !.id = view[e][n].id, !.rev = view[e][n].rev])

\* gen-jobs: a generated file without an identity.
BeginSeed(e, n, c, overwrite) ==
  Begin(e, [Idle EXCEPT !.kind = IF overwrite THEN "reseed" ELSE "seed", !.from = n, !.to = n, !.config = c])

\* require_revision: the configuration on disk is the one the editor loaded.
\* (Mutant: a file that is there is good enough.)
SameRevisionAlways(e) == files[task[e].from] # Missing
SameRevision(e) == IsFile(task[e].from) /\ files[task[e].from].config = task[e].rev

\* The first look. A save and a deletion compare the revision here and the identity in a
\* read of its own.
Accepted(e) ==
  LET m == task[e]
  IN  CASE m.kind = "create" -> ~IsFile(m.to)
        [] m.kind \in {"save", "delete"} -> SameRevision(e)
        [] m.kind = "roots" -> SameRevision(e) /\ files[m.from].id = m.id
        [] OTHER -> TRUE

\* load_registered_path in a save or a deletion found the identity the editor has.
SameIdentity(e) ==
  LET m == task[e]
  IN  /\ IsFile(m.from) /\ files[m.from].id = m.id
      /\ m.to # m.from => ~IsFile(m.to)

\* The second look, after the new text was staged; a save compares the revision alone.
StillAccepted(e) ==
  LET m == task[e]
  IN  CASE m.kind = "create" -> ~IsFile(m.to)
        [] m.kind = "save" -> SameRevision(e) /\ (m.to # m.from => ~IsFile(m.to))
        [] m.kind = "roots" -> SameRevision(e) /\ files[m.from].id = m.id
        [] OTHER -> TRUE

NothingToDo(e) ==
  LET m == task[e]
  IN  m.from = m.to /\ m.config = m.rev /\ ~files[m.from].old

\* A mutation is refused, or ends with nothing to write.
Refuse(e) ==
  /\ \/ step[e] = "look" /\ ~Accepted(e)
     \/ step[e] = "look" /\ task[e].kind = "roots" /\ NothingToDo(e)
     \/ /\ step[e] = "identify" /\ ~SameIdentity(e)
        /\ IsFile(task[e].from) => files[task[e].from].id # Unnamed
     \/ step[e] = "identify" /\ SameIdentity(e) /\ task[e].kind = "save" /\ NothingToDo(e)
     \/ step[e] = "read" /\ ~(IsFile(task[e].from) /\ files[task[e].from].id = Unnamed)
     \/ step[e] = "publish" /\ ~StillAccepted(e)
  /\ Leave(e)
  /\ UNCHANGED <<files, view, drawn, touched, counters>>

Look(e) ==
  /\ step[e] = "look"
  /\ Accepted(e) /\ (task[e].kind = "roots" => ~NothingToDo(e))
  /\ task[e].kind = "create" => drawn < MaxIds
  /\ drawn' = IF task[e].kind = "create" THEN drawn + 1 ELSE drawn
  /\ task' = IF task[e].kind = "create" THEN [task EXCEPT ![e].id = drawn + 1] ELSE task
  /\ step' = [step EXCEPT ![e] = IF task[e].kind \in {"save", "delete"} THEN "identify" ELSE "publish"]
  /\ UNCHANGED <<files, holder, view, touched, counters>>

\* The read of the identity; a deletion looks no more after it.
Identify(e) ==
  /\ step[e] = "identify"
  /\ \/ /\ IsFile(task[e].from) /\ files[task[e].from].id = Unnamed
        /\ step' = [step EXCEPT ![e] = "read"]
     \/ /\ SameIdentity(e) /\ (task[e].kind = "save" => ~NothingToDo(e))
        /\ step' = [step EXCEPT ![e] = IF task[e].kind = "delete" THEN "commit" ELSE "publish"]
  /\ touched' = {}
  /\ UNCHANGED <<files, holder, view, task, drawn, counters>>

\* The second look itself; from here to the publication only a hand can come between.
LookAgain(e) ==
  /\ step[e] = "publish" /\ StillAccepted(e)
  /\ step' = [step EXCEPT ![e] = IF task[e].kind = "save" /\ task[e].from # task[e].to
                                 THEN "link" ELSE "commit"]
  /\ touched' = {}
  /\ UNCHANGED <<files, holder, view, task, drawn, counters>>

Written(e) == [id |-> task[e].id, config |-> task[e].config, old |-> FALSE]

\* Staged::commit replaces; a deletion removes; a seed does not replace.
Commit(e) ==
  LET m == task[e]
  IN  /\ step[e] = "commit"
      /\ m.kind = "seed" => ~IsFile(m.to)
      /\ m.kind = "delete" => IsFile(m.to)
      /\ files' = [files EXCEPT ![m.to] = IF m.kind = "delete" THEN Missing ELSE Written(e)]
      /\ view' = [view EXCEPT ![e][m.to] =
                    IF m.kind \in {"delete", "seed", "reseed"} THEN Unseen[m.to]
                    ELSE [id |-> m.id, rev |-> m.config]]
      /\ Leave(e)
      /\ UNCHANGED <<drawn, touched, counters>>

\* rename_without_overwrite: a hard link that needs a free name, then the removal of the
\* old name.
LinkNewName(e) ==
  /\ step[e] = "link"
  /\ IsFile(task[e].from) /\ ~IsFile(task[e].to)
  /\ files' = [files EXCEPT ![task[e].to] = files[task[e].from]]
  /\ step' = [step EXCEPT ![e] = "unlink"]
  /\ UNCHANGED <<holder, view, task, drawn, touched, counters>>

RemoveOldName(e) ==
  /\ step[e] = "unlink"
  /\ files' = [files EXCEPT ![task[e].from] = Missing]
  /\ step' = [step EXCEPT ![e] = "commit"]
  /\ UNCHANGED <<holder, view, task, drawn, touched, counters>>

\* A call fails, and what it had done before is undone.
CommitFails(e) ==
  LET m == task[e]
      back == m.from # m.to /\ IsFile(m.to) /\ ~IsFile(m.from)
  IN  /\ step[e] = "commit" /\ Mishap
      /\ files' = IF back THEN [files EXCEPT ![m.from] = files[m.to], ![m.to] = Missing] ELSE files
      /\ Leave(e)
      /\ UNCHANGED <<view, drawn, touched, mutations, hands>>

StageFails(e) ==
  /\ step[e] \in {"naming", "publish", "link"}
  /\ \/ Mishap
     \/ /\ step[e] = "link" /\ ~(IsFile(task[e].from) /\ ~IsFile(task[e].to))
        /\ UNCHANGED mishaps
  /\ Leave(e)
  /\ UNCHANGED <<files, view, drawn, touched, mutations, hands>>

RemoveFails(e) ==
  /\ step[e] = "unlink" /\ Mishap
  /\ files' = [files EXCEPT ![task[e].to] = Missing]
  /\ Leave(e)
  /\ UNCHANGED <<view, drawn, touched, mutations, hands>>

\* The seed found the name taken, or the file to delete is gone.
CommitRefused(e) ==
  /\ step[e] = "commit"
  /\ \/ task[e].kind = "seed" /\ IsFile(task[e].to)
     \/ task[e].kind = "delete" /\ ~IsFile(task[e].to)
  /\ Leave(e)
  /\ UNCHANGED <<files, view, drawn, touched, counters>>

\* The process dies; a rename between its two calls leaves both names.
Die(e) ==
  /\ holder = e /\ Mishap
  /\ Leave(e)
  /\ view' = [view EXCEPT ![e] = Unseen]
  /\ UNCHANGED <<files, drawn, touched, mutations, hands>>

-----------------------------------------------------------------------------
\* A person writes, copies or removes a file.
ByHand(n, f) ==
  /\ hands < MaxHands
  /\ files[n] # f
  /\ \/ f = Missing
     \/ f.id = files[n].id
     \/ f.id = Unnamed
     \/ \E q \in JobName : f = files[q]
  /\ files' = [files EXCEPT ![n] = f]
  /\ hands' = hands + 1
  /\ touched' = touched \cup {n}
  /\ UNCHANGED <<holder, view, task, step, drawn, mutations, mishaps>>

EditorStep(e) ==
  \/ \E n \in JobName : LoadJob(e, n) \/ BeginDelete(e, n)
  \/ \E n \in JobName, c \in Config :
       \/ BeginCreate(e, n, c) \/ BeginRoots(e, n, c)
       \/ \E to \in JobName : BeginSave(e, n, to, c)
       \/ \E overwrite \in BOOLEAN : BeginSeed(e, n, c, overwrite)
  \/ ReadText(e) \/ NameFile(e) \/ Refuse(e) \/ Look(e) \/ Identify(e) \/ LookAgain(e) \/ Commit(e) \/ LinkNewName(e)
  \/ RemoveOldName(e) \/ CommitFails(e) \/ StageFails(e) \/ RemoveFails(e)
  \/ CommitRefused(e) \/ Die(e)

RegistryNext ==
  \/ \E e \in Editor : EditorStep(e)
  \/ \E n \in JobName, f \in JobFiles : ByHand(n, f)

RegistrySpec == RegistryInit /\ [][RegistryNext]_registryVars

-----------------------------------------------------------------------------
(* Properties                                                              *)

\* Every variable has its type, and who is in a mutation has the lock.
RegistryTypeOK ==
  /\ files \in [JobName -> JobFiles]
  /\ holder \in Editor \cup {Nobody}
  /\ \A e \in Editor : step[e] # "idle" <=> holder = e
  /\ view \in [Editor -> [JobName -> [id : Identity, rev : Config \cup {NoFile}]]]
  /\ task \in [Editor -> Errand]
  /\ step \in [Editor -> {"idle", "read", "naming", "look", "identify", "publish", "link", "unlink",
                          "commit"}]
  /\ drawn \in Identity
  /\ touched \subseteq JobName
  /\ mutations \in 0 .. MaxMutations /\ hands \in 0 .. MaxHands /\ mishaps \in 0 .. MaxMishaps

Publishes(e) == step[e] = "commit" /\ step'[e] = "idle" /\ files' # files /\ mishaps' = mishaps

\* "What stops a save from overwriting an edit made between the read and the write"
\* (fence.rs:3): what a save or a change of the roots replaces is the revision its editor
\* had loaded, whoever mutated the registry since, and also when it was changed by hand up
\* to the second look.
NoLostUpdate ==
  [][\A e \in Editor :
       Publishes(e) /\ task[e].kind \in {"save", "roots"} /\ {task[e].from, task[e].to} \cap touched = {} =>
         files[task[e].to].config = task[e].rev]_registryVars

\* "Every mutation carries the job id and config revision the caller believed current"
\* (fence.rs:3): a deletion, too, removes the revision its editor had loaded when nobody
\* touched the file after the last look the deletion takes.
NoLostDeletion ==
  [][\A e \in Editor :
       Publishes(e) /\ task[e].kind = "delete" /\ task[e].to \notin touched =>
         files[task[e].to].config = task[e].rev]_registryVars

=============================================================================
