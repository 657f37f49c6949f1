CONSTANTS
  NVMACHINES = 3
  Priority <- MCPriority
  TICKS_BEFORE_SCHEDULING = 2
  TICK_MODULUS = 4
  Steady <- MCSteady
  MAX_JOBS = 16
SPECIFICATION ShareSpec
INVARIANTS
  WeightedFairShare
CHECK_DEADLOCK FALSE
