CONSTANTS
  p1 = p1
  p2 = p2
  p3 = p3
  c1 = c1
  Main = Main
  Producers <- MCPairProducers
  Consumers <- MCConsumers
  CreationOrder <- MCPairOrder
  BUF_SIZE = 2
  LOOP_VALUE = 0
  MaxDisturbances = 3
  MaxRuns = 3

SPECIFICATION AppSpec
CHECK_DEADLOCK FALSE

INVARIANTS
  EscapedOnlyUnregistered
  CoreHolds

PROPERTIES
  InterruptEndsAll
  AppCompletes
