CONSTANTS
  Statements <- Meant
  Seconds <- Few
  Slips <- Typed
  MaxSlips = 1
SPECIFICATION Spec
INVARIANTS
  StatementsAreUnderstood
  WordsTakenAreKept
CHECK_DEADLOCK FALSE
