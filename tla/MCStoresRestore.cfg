SPECIFICATION Spec
CONSTANTS
  File = {f1}
  Bytes = {x, y, z}
  Large = {x, y}
  Gone = Gone
  MaxVersions = 2
  MaxKeep = 1
  Stamps = {0, 1}
  MaxEdits = 0
  MaxTroubles = 1
  Rel = {p1}
  Item = {i, l}
  Dangling = {l}
  Vacant = Vacant
  Second = 2
  Intervals <- Steps
  KeepFor = 5
  MaxBytes = 2
  MaxClock = 2
  Writer = {w1, w2}
  Held = {"state", "local", "claim", "sftp", "smb", "ftp"}
  Lies = {"name"}
  Bypass = FALSE
  Nothing = Nothing
  Outsider = Outsider
  Cut = Cut
  MaxFaults = 0
  MaxPeople = 0
  Run = {"r1"}
  PastRun <- Past
  Elsewhere <- Other
  MaxDetails = 1
  Budgets <- None
PROPERTIES RestoreNeverOverwrites
CHECK_DEADLOCK FALSE
