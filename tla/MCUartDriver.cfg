CONSTANTS
  NVMACHINES = 3
  Priority <- MCPriority
  TICKS_BEFORE_SCHEDULING = 1
  TICK_MODULUS = 1
  MAX_SIZE = 3
  FIFO_DEPTH = 2
SPECIFICATION UartFairSpec
INVARIANTS
  TransfersAreTracked
PROPERTIES
  MessagesNeverInterleave
  ActiveTransferEnds
