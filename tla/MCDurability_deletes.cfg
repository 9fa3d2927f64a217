CONSTANTS
  s1 = s1
  s2 = s2
  k1 = k1
  Sessions = {s1, s2}
  Keys = {k1}
  SpNames = {}
  Loaded <- OneRow
  FirstId = 2
  Does <- Deletes
  Writes <- SameKeys
  MaxTxn = 3
  MaxVid = 2
  MaxCrashes = 1
  MaxLog = 2
SPECIFICATION DSpec
CHECK_DEADLOCK FALSE
INVARIANTS
  CommittedDeletesSurvive
