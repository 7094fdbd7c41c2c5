SPECIFICATION MCSpec
CONSTANTS
  V4Width = 2
  V6Width = 3
  Volumes <- MCVolumes
  PathLength = 3
  Rules <- MCRules
  Batches <- MCBatches
  Connections <- MCConnections
  CoverRules <- MCCoverRules
  CoverConnections <- MCCoverConnections
  Groups = {"g"}
  MemberPaths <- MCMemberPaths
  Templates <- MCTemplates
  Clients = {c1, c2}
  Kinds = {"create", "update", "delete", "uninstall", "enable", "disable", "join", "leave", "switch", "predefined", "merge", "replace", "start"}
  MAX_RULES = 8
  MaxRequests = 3
  MaxFaults = 1
INVARIANTS CoverSound DriverIsExpansion NoMissingRule
PROPERTIES CreateLosesNothing ReloadHeals
SYMMETRY MCSymmetry
CHECK_DEADLOCK FALSE
