CONSTANTS
  s1 = s1
  s2 = s2
  k1 = k1
  k2 = k2
  Sessions = {s1, s2}
  Keys = {k1, k2}
  SpNames = {"a", "b"}
  Loaded <- TwoRows
  FirstId = 3
  Does <- SavepointsBesideAWriter
  Writes <- Disjoint
  MaxTxn = 5
  MaxVid = 4
SPECIFICATION Spec
PROPERTIES
  ImplementsSnapshotIsolation
