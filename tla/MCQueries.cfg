CONSTANTS
  none = none
  Nil = none
  TRows <- RowsOfT
  URows <- RowsOfU
  MaxRows = 3
  MaxOpen = 1
  Views <- ViewsOnT
  Selects <- AllSelects
  Joins <- Joining
SPECIFICATION Spec
INVARIANTS
  AnswersAreSql
  JoinsPairRows
CHECK_DEADLOCK FALSE
