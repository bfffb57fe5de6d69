SPECIFICATION Spec
CHECK_DEADLOCK FALSE
CONSTANTS
  MaxAddr = 3
  Paths <- MCPaths
  Setups <- MCSetups
  ALL = "all"
  MaxChanges = 2
  MaxFaults = 1
  MaxRefreshes = 3
INVARIANTS
  KnownIsCurrent
  HookedWhenKnown
  OneTree
