CONSTANTS
  a = a
  b = b
  c = c
  Parent = Parent
  ForkOrder <- MCForkOrder
  MaxFailures = 1

SPECIFICATION Spec
CHECK_DEADLOCK FALSE

INVARIANTS
  PrintsPrefix

PROPERTY ReturnsIfMet
