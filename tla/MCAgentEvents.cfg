SPECIFICATION Spec
CONSTANTS
  Keys = {k1, k2}
  NoKey = NoKey
  EVENT_BUFFER_SIZE = 2
  DEDUPLICATION_CACHE_SIZE = 2
  DEDUPLICATION_WINDOW_SECS = 2
  FlushInterval = 1
  HealthInterval = 1
  EventSize = 408
  BUFFER_SIZE = 600
  MaxEvents = 4
  MaxTime = 3
CHECK_DEADLOCK FALSE
INVARIANTS NoEventTwice 
