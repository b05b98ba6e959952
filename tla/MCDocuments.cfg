SPECIFICATION Spec
CONSTANTS
  Editor = {e1, e2}
  JobName = {n1, n2}
  n1 = n1
  Config = {c1, c2}
  c1 = c1
  NoFile = NoFile
  Nobody = Nobody
  MaxIds = 2
  MaxMutations = 2
  MaxHands = 1
  MaxMishaps = 1
  Loader = {l1, l2}
  Agreement = {a1, a2}
  NoArchive = NoArchive
  NoLoader = NoLoader
  MaxLoads = 2
  MaxOld = 2
  MaxBreaks = 2
  Program = {p1, p2}
  LogDir = {d0, d1, d2}
  DefaultDir = d0
  Option = {o0}
  DefaultOption = o0
  Rubbish = {b}
  NoProgram = NoProgram
  MaxSaves = 2
  MaxPatches = 1
  MaxFlaws = 1
  Tasks = 2
  Rev = {r1, r2}
  r1 = r1
  Target = {g1}
  Unattended = {r1}
  Deleted = Deleted
  NoGeneration = NoGeneration
  MaxRuns = 2
  MaxTokens = 1
  Allowance <- Scenarios
SYMMETRY Symmetry
INVARIANTS MigrationResumes TicketIsAwaited
PROPERTIES NoLostUpdate SettingsAreNotLost UnattendedIsCurrent ComparedAfterWrites
CHECK_DEADLOCK FALSE
