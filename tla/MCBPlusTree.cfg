CONSTANTS
  w1 = w1
  r1 = r1
  none = none
  Nil = none
  MaxKey = 5
  Order = 3
  MaxNodes = 4
  Keys <- AllKeys
  Entries <- OneRowEach
  Removals <- SomeRemovals
  Lookups <- PointsAndRanges
  Writers = {w1}
  Readers = {r1}
SPECIFICATION Spec
INVARIANTS
  RestingTreeIsSearchable
  RestingTreeIsBalanced
  QuietLookupsAreExact
PROPERTIES
  ImplementsMultimap
  LookupsEnd
CHECK_DEADLOCK FALSE
