CONSTANTS
  NVMACHINES = 3
  NUM_SHADOW_GPRS = 0
  PORT_SAVES_GPRS = TRUE
  GPRs <- MCValue
  CP0s <- MCValue
  ZEROED = 0
  PC_RANGE = 3
SPECIFICATION Spec
INVARIANTS
  HardwareRunsTheVCPU
PROPERTIES
  ContextsAreIsolated
