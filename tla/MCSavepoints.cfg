CONSTANTS
  s1 = s1
  s2 = s2
  k1 = k1
  k2 = k2
  Sessions = {s1, s2}
  Keys = {k1, k2}
  SpNames = {"a"}
  Loaded <- TwoRows
  FirstId = 3
  Does <- SavepointsBesideARollback
  Writes <- Disjoint
  MaxTxn = 4
  MaxVid = 5
SPECIFICATION Spec
PROPERTIES
  SavepointsKeepTheirWrites
