CONSTANTS
  MAX_THROTTLE_ENTRIES = 1
  THROTTLE_MIN_BUCKET_CAPACITY = 2
  SECOND = 1
  U64 = 1000
  Pids = {0, 5, 6}
  Rates = {0, 1}
  Sizes = {1, 2}
  MaxAge = 1
  PACING_MAX_CONTEXTS = 2
  PACING_PID_HOLD_LIMIT = 3
  PACING_GLOBAL_HOLD_LIMIT = 3
  PACING_DPC_BATCH = 2
  Cpus = {c1}
  Families = {4}
  Limits <- OnOrOff
  OutSizes = {}
  MaxPackets = 2
  MaxCommands = 2
SPECIFICATION FairSpec
PROPERTY EveryPacketLeaves
