CONSTANT MaxFailures = 2

SPECIFICATION Spec
CHECK_DEADLOCK FALSE

INVARIANTS
  StopsAtEof

PROPERTIES
  ReturnsIfMet
  EndsUnlessStranded
