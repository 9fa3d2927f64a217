CONSTANTS
  t1 = t1
  t2 = t2
  none = none
  Nil = none
  Threads = {t1, t2}
  Does <- Work
  Names = {"a", "b"}
  First = "a"
  MaxTables = 3
  MaxEntries = 2
  MaxRows = 1
  MaxCrashes = 1
SPECIFICATION Spec
INVARIANTS
  AckedRowsAreOnDisk
  FilesAreOfTables
PROPERTIES
  EveryoneReturns
CHECK_DEADLOCK FALSE
