CONSTANTS
  MaxFailures = 1
  MaxRuns = 2

SPECIFICATION Spec
CHECK_DEADLOCK FALSE

INVARIANTS
  CopiesWhole
  NamesAwaitPrograms

PROPERTY Completes
