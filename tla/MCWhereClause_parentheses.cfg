CONSTANTS
  Columns <- TableColumns
  Rows <- TableRows
  Atoms <- Conditions
  Returned <- Subquery
  MaxAtoms = 3
SPECIFICATION Spec
INVARIANTS
  ParenthesesGroup
CHECK_DEADLOCK FALSE
