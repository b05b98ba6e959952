SPECIFICATION ApplySpec
CONSTANTS
  a = a  b = b  c = c
  c1 = c1  c2 = c2  c3 = c3  c4 = c4  c5 = c5
  None = None  Torn = Torn
  Path = {a, b, c}
  Content = {c1, c2, c3, c4, c5}
  Here <- HereChain
  There <- ThereChain
  Plan <- PlanChain
  Central = FALSE
  Fsync = TRUE
  InPlace = TRUE
  MaxSaves = 2
  MaxFaults = 2
  Worker = {w1, w2}
  Folder = {"d", "s"}
  Leaf = {"a", "b", "x", "y"}
  Symlink = {"y"}
  Top = "/"
  Up <- Parents
  Deletable = {"x"}
  Plans <- Arriving
  Before <- Start
  Delta = FALSE
  Parallel = 2
  Streams = 2
  MaxMeddling = 1
  MaxSetbacks = 1
  Piece = {"p", "q"}
  Order <- TheOrder
  Large = {"big"}
  Longest = 2
  Beginnings <- TheRoots
  Runs = 2
  MaxWrites = 1
  MaxTroubles = 1
INVARIANTS CleanSummaryIsTrue AppliedIsCompared BeforeWriteIsTrue
PROPERTIES LossStopsMutation DoneIsVerified OnlyTheDeletableGoes ArchiveWasThere NoLateOverwrite
CHECK_DEADLOCK FALSE
