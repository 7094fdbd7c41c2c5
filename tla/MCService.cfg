SPECIFICATION ServiceSpec
CONSTANTS
  Kinds = {"stream"}
  SkipFilters = {"stream"}
  Leftover = {4}
  Clients = {c1, c2}
  Configs <- MCConfigs
  Defs = {"s1"}
  MaxRequests = 2
  MaxStarts = 2
  MaxFaults = 1
INVARIANTS UpdatesKept SettingsInForce KillSwitchInForce StopIsClean
SYMMETRY MCSymmetry
CHECK_DEADLOCK FALSE
