CONSTANTS
  p1 = p1
  p2 = p2
  p3 = p3
  c1 = c1
  Producers <- MCProducers
  Consumers <- MCConsumers
  BUF_SIZE = 3
  LOOP_VALUE = 2

SPECIFICATION Spec

INVARIANTS
  MutualExclusion
  Accounting
  FifoUntilFirstDrop
  RingDrift
  LeftoverAtExit

PROPERTIES
  Termination
  ImplementsFlowControl
