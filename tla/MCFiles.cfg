CONSTANTS
  Bytes = {0, 1}
  MaxSize = 5
  Chunk = 2
  ULong = 8
  Entries = {"a", "b", "c"}
  MaxFailures = 1
  MaxChanges = 2

SPECIFICATION Spec

INVARIANTS
  CopiesWhole
  VerdictTrue
  ListsWhatStays
PROPERTIES
  CopyStops
CHECK_DEADLOCK FALSE
