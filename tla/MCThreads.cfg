CONSTANTS
  N = 3
  Rounds = 3
  MaxSpurious = 2

SPECIFICATION Spec

INVARIANTS
  GoesOnWhenReady
  RacyBounds
  LockedExact
PROPERTIES
  Ends
CHECK_DEADLOCK FALSE
