CONSTANTS
  MaxFailures = 0
  MaxRuns = 2

SPECIFICATION Spec
CHECK_DEADLOCK FALSE

PROPERTY LastRunPrints
