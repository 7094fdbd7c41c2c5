SPECIFICATION PipelineSpec
CONSTANTS
  EVENT_QUEUE_SIZE = 3
  Ids = {1, 2, 3}
  Events <- MCEvents
  Zero = Zero
  MAX_SIZE = 3
  FLUSH_AT = 2
  DNS_PER_ROUND = 1
  MaxFaults = 1
INVARIANTS LoggedOnce ShutdownLosesOne
PROPERTIES RefinesFifo BufferEmpties StopEnds
CHECK_DEADLOCK FALSE
