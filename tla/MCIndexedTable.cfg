CONSTANTS
  s1 = s1
  s2 = s2
  none = none
  Nil = none
  Sessions = {s1, s2}
  Values <- Words
  Text <- TextOrder
  Key <- KeyOrder
  Numeric = {"7"}
  Uniques = {TRUE, FALSE}
  Writes = {"7", "a"}
  MaxTxn = 3
  MaxRows = 3
SYMMETRY Symmetry
SPECIFICATION Spec
INVARIANTS
  EntriesPointAtTheirRows
  IndexScansAgree
  LiveRowsCanBeIndexed
CHECK_DEADLOCK FALSE
