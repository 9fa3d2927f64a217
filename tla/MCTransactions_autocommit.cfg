CONSTANTS
  s1 = s1
  s2 = s2
  k1 = k1
  k2 = k2
  Sessions = {s1, s2}
  Keys = {k1}
  SpNames = {"a"}
  Loaded <- OneRow
  FirstId = 2
  Does <- ReaderBesideAuto
  Writes <- SameKeys
  MaxTxn = 4
  MaxVid = 3
SPECIFICATION Spec
PROPERTIES
  RepeatableReads
