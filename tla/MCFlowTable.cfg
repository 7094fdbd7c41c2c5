SPECIFICATION FlowSpec
CONSTANTS
  f1 = f1
  f2 = f2
  f3 = f3
  t1 = t1
  t2 = t2
  t3 = t3
  MAX_FLOW_REGISTRY = 2
  MAX_TUPLE_ENTRIES = 2
  SweepPasses = 2
  UnregisterTries = 2
  Flows = {f1, f2, f3}
  Missed = {f2, f3}
  Tuples = {t1, t2, t3}
  TupleOf <- MCTupleOf
  Pids = {1, 2}
  PidOf <- MCPidOf
  Authorised <- MCAuthorised
  Addrs = {a1, a2, a3}
  Cpus = {c1, c2}
  None = None
  MaxTraffic = 4
SYMMETRY Symmetry
INVARIANTS ContextHasOneOwner EveryByteReported RegistryComplete UnloadClean
PROPERTY LookupIsLatest
CHECK_DEADLOCK FALSE
