CONSTANTS
  NVMACHINES = 3
  Priority <- MCPriority
  TICKS_BEFORE_SCHEDULING = 3
  TICK_MODULUS = 7
SPECIFICATION FairSpec
INVARIANTS
  TypeOK
  PendingCountsCritical
  ExecutingIsReady
  NobodyLeavesTheQueue
PROPERTIES
  IdleMeansNobodyReady
  QuantumIsKept
  FastInterruptServed
  EveryReadyVCPURuns
