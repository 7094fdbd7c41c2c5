SPECIFICATION HistorySpec
CONSTANTS
  Keys = {k1}
  Limit = 2
  GcRounds = 1
  None = None
  MaxBytes = 2
  MaxOpens = 2
  MaxRounds = 3
  MaxFaults = 1
INVARIANTS CountedOnce NothingMissed
CHECK_DEADLOCK FALSE
