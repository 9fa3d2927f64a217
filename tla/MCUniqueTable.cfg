CONSTANTS
  s1 = s1
  s2 = s2
  none = none
  Nil = none
  Sessions = {s1, s2}
  Keys = {1, 2, 3}
  Loaded <- OneDead
  Stmts <- Fights
  MaxPolls = 1
  MaxStmts = 2
  MaxTxn = 3
  MaxLists = 2
SPECIFICATION Spec
INVARIANTS
  DuplicatesOnlyThroughGaps
  RowsAreLostOnlyUnderACopy
  RowLocksExclude
  FailuresOfOneRowAreClean
PROPERTIES
  StatementsEnd
CHECK_DEADLOCK FALSE
