SPECIFICATION SharedSpec
CONSTANTS
  p1 = p1
  p2 = p2
  p3 = p3
  Proc <- Two
  Token = {1, 2, 3, 4, 5, 6, 7, 8, 9}
  Absent = 0
  MaxGen = 2
  MaxFaults = 1
  MaxCrashes = 1
  MaxCleanups = 1
  Hasty = FALSE
  AutoClose = FALSE
  Prompt = TRUE
  MaxTasks = 2
  Bounds <- Scenarios
SYMMETRY Symmetry
INVARIANTS MutualExclusion NoTakeover LedgerStaysReadable NoHeadlessApply ClosingIsSettled MutationIsAlone PowerActionIsCurrent StopHitsItsRun
CHECK_DEADLOCK FALSE
