CONSTANTS
  p1 = p1
  p2 = p2
  p3 = p3
  c1 = c1
  Main = Main
  Producers <- MCProducers
  Consumers <- MCConsumers
  CreationOrder <- MCCreationOrder
  BUF_SIZE = 2
  LOOP_VALUE = 0
  MaxDisturbances = 0
  MaxRuns = 1

SPECIFICATION AppSpec
CHECK_DEADLOCK FALSE

INVARIANT AllChildrenAwaited
