SPECIFICATION AleSpec
CONSTANTS
  MAX_RULES = 3
  MAX_PATH_LENGTH = 3
  Characters = {"x", "y"}
  RuleInputs <- Inputs
  Cpus = {c1}
  Connections <- Seen
  CurrentPids = {4, 7}
  V4Width = 2
  V6Width = 3
INVARIANTS
  ListWellFormed
  VerdictWasInForce
PROPERTY
  ArrivalOrder
