CONSTANTS
  Columns <- TableColumns
  Rows <- TableRows
  Atoms <- Conditions
  Returned <- Subquery
  MaxAtoms = 3
SPECIFICATION Spec
INVARIANTS
  ClausesSelectWhatTheySay
CHECK_DEADLOCK FALSE
