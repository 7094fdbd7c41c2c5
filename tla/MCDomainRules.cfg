SPECIFICATION DomainSpec
CONSTANTS
  RuleIds = {1, 2}
  Ips = {i1}
  Domains <- MCDomains
  Patterns <- MCPatterns
  Ttls = {2}
  SHADOW_TTL_CAP = 1
  CHANNEL = 1
  None = None
  MaxAnswers = 2
  MaxRequests = 2
  MaxFaults = 1
INVARIANTS LedgerIsDriver ShadowsCurrent
PROPERTY ShadowsExpire
CHECK_DEADLOCK FALSE
