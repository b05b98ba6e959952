SPECIFICATION Spec
CONSTANTS
  File = {f1}
  Bytes = {x, y, z}
  Large = {x, y}
  Gone = Gone
  MaxVersions = 2
  MaxKeep = 1
  Stamps = {0, 1}
  MaxEdits = 3
  MaxTroubles = 1
  Rel = {p1}
  Item = {i, l}
  Dangling = {l}
  Vacant = Vacant
  Second = 2
  Intervals <- Steps
  KeepFor = 5
  MaxBytes = 2
  MaxClock = 6
  Writer = {w1, w2}
  Held = {"state", "local", "claim", "sftp", "smb", "ftp"}
  Lies = {"name"}
  Bypass = FALSE
  Nothing = Nothing
  Outsider = Outsider
  Cut = Cut
  MaxFaults = 2
  MaxPeople = 1
  Run = {"r1"}
  PastRun <- Past
  Elsewhere <- Other
  MaxDetails = 1
  Budgets <- Few
SYMMETRY Symmetry
INVARIANTS NoRunVanishes IndexIsHonoured  AbsenceIsReal
PROPERTIES KeepsThePromise
CHECK_DEADLOCK FALSE
