SPECIFICATION LiveSpec
CONSTANTS
  p1 = p1
  p2 = p2
  p3 = p3
  Proc <- Two
  Token = {1, 2, 3, 4, 5, 6, 7, 8, 9}
  Absent = 0
  MaxGen = 0
  MaxFaults = 1
  MaxCrashes = 0
  MaxCleanups = 1
  Hasty = TRUE
  Worker = {w1, w2}
  MaxPauses = 2
  Streams = {src}
  MaxChanges = 1
  MaxMishaps = 1
  MaxPaths = 1
  FullRigor = FALSE
  None = None
  Missing = Missing
  Spoiled = Spoiled
  Broken = Broken
INVARIANTS CheckpointIsEarned NothingIsForgotten
PROPERTIES ContestHasWinner CancelGetsThrough ChangesAreVerified
CHECK_DEADLOCK FALSE
