CONSTANTS
  Instances <- MCInstances
  MaxChildren = 4
  Names = {"/demo_queue", "key", "/tmp/unix_socket_demo"}
  MQ_NAME = "/demo_queue"
  KEY = "key"
  SOCKET_PATH = "/tmp/unix_socket_demo"
  Nobody = Nobody
  Pipe <- MCPipe
  Capacity = 1
  Lines = 2
  MaxQueues = 3
  MaxMsg = 1
  MaxKeyed = 1
  MaxFailures = 2
  MaxKills = 2
  Companies <- MCCompanies
  Inputs <- MCInputs

SPECIFICATION Spec

INVARIANTS
  PipesDeliver
  ChildrenAwaited
  QueuesServe
  ClientsServed
PROPERTIES
  Completes
CHECK_DEADLOCK FALSE
