CONSTANTS
  s1 = s1
  s2 = s2
  k1 = k1
  Sessions = {s1, s2}
  Keys = {k1}
  SpNames = {"a"}
  Loaded <- TwoRows
  FirstId = 3
  Does <- Mixed
  Writes <- SameKeys
  MaxTxn = 4
  MaxVid = 3
  MaxCrashes = 1
  MaxLog = 1
SPECIFICATION DSpec
CHECK_DEADLOCK FALSE
INVARIANTS
  DiskTypeOK
  AckedRowsAreOnDisk
PROPERTIES
  CommitRecordFollowsData
  OnlySelectMissesRecovered
  RestartLosesOnlyToUnanswered
