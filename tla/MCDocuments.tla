----------------------------- MODULE MCDocuments -----------------------------
(* Instances of the documents the program keeps about itself, and of the authority to     *)
(* write without a person, for TLC: one of them moves, the others stand still.            *)
EXTENDS JobRegistry, ArchiveFile, SettingsFile, AutoScan, TLC

CONSTANTS n1, c1, r1

VARIABLE part

Symmetry == Permutations(Editor)

\* Scenarios of AutoScan: how often what may happen in a behaviour.
Allows(st, ti, co, sa, ha, ex, fo) ==
  [start |-> st, ticket |-> ti, compare |-> co, save |-> sa, hand |-> ha,
   expiry |-> ex, forget |-> fo]
Scenarios ==
  {Allows(1, 2, 1, 0, 0, 0, 0), Allows(2, 1, 1, 0, 0, 0, 0), Allows(1, 1, 1, 1, 0, 0, 0),
   Allows(1, 1, 1, 0, 1, 0, 0), Allows(1, 1, 2, 0, 0, 0, 0), Allows(0, 0, 1, 1, 1, 1, 0),
   Allows(0, 0, 2, 0, 0, 0, 1)}

Init ==
  /\ RegistryInit /\ ArchiveFileInit /\ SettingsInit /\ AutoInit
  /\ part \in {"registry", "archive", "settings", "autoscan"}
  /\ \A n \in JobName : files[n] = Missing \/ (part = "registry" /\ n = n1 /\ files[n].config = c1)
  /\ part = "archive" \/ main = AbsentArchive
  /\ part = "settings" \/ toml = NoSettings
  /\ part = "autoscan" \/ (revision = r1 /\ left = Allows(1, 2, 1, 0, 0, 0, 0))

Next ==
  /\ UNCHANGED part
  /\ \/ part = "registry" /\ RegistryNext /\ UNCHANGED <<archiveFileVars, settingsVars, autoVars>>
     \/ part = "archive" /\ ArchiveFileNext /\ UNCHANGED <<registryVars, settingsVars, autoVars>>
     \/ part = "settings" /\ SettingsNext /\ UNCHANGED <<registryVars, archiveFileVars, autoVars>>
     \/ part = "autoscan" /\ AutoNext
          /\ UNCHANGED <<registryVars, archiveFileVars, settingsVars>>

Spec == Init /\ [][Next]_<<registryVars, archiveFileVars, settingsVars, autoVars, part>>
=============================================================================
