CONSTANTS
  s1 = s1
  s2 = s2
  r1 = r1
  r2 = r2
  r3 = r3
  none = none
  Nil = none
  Sessions = {s1, s2}
  Requests = {r1, r2, r3}
  Plans <- Browsing
  MaxFaults = 1
SPECIFICATION Spec
INVARIANTS
  RepliesReachTheirRequest
  RunTwiceOnlyAfterABreak
  WritesStayInTheirTransaction
PROPERTIES
  LostTransactionsEnd
  AnsweredUnlessShared
CHECK_DEADLOCK FALSE
