CONSTANTS
  N = 3
  MaxFailures = 1
  MaxDeaths = 1

SPECIFICATION Spec
CHECK_DEADLOCK FALSE

INVARIANTS
  CountsMessages
  Released
  OrderedOnceWatched

PROPERTY Returns
