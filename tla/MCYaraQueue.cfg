SPECIFICATION Spec
CONSTANTS
  QUEUE_SIZE = 4
  Files = {f1, f2, f3}
  None = None
CHECK_DEADLOCK FALSE
INVARIANTS NoLostWakeup
PROPERTIES ImplementsScanQueue ShutdownCompletes
