SPECIFICATION MCSpec
CONSTANTS
  a = a  b = b  c = c
  c1 = c1  c2 = c2  c3 = c3  c4 = c4  c5 = c5
  None = None  Torn = Torn
  Path = {a, b, c}
  Content = {c1, c2, c3, c4, c5}
  Here <- HereChain
  There <- ThereChain
  Plan <- PlanLinks
  Central = TRUE
  Fsync = FALSE
  InPlace = FALSE
  MaxSaves = 2
  MaxFaults = 2
  Item = {"x", "z"}
  Below = {"x"}
  Bytes = {"A", "B", "C"}
  Length <- Sizes
  SampleMin = 1
  Meant <- Stamps
  Held <- Even
  Volumes = {"v1", "v2"}
  Untracked = {}
  Shelf <- Drives
  Lanes = {"local", "vfs"}
  Ranged = TRUE
  Options <- Ways
  Allowances <- Budgets
INVARIANTS NothingLost DigestIsTrue AbsentWasAbsent
PROPERTIES CorrectionsOutliveTheScan
CHECK_DEADLOCK FALSE
