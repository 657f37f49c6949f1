CONSTANTS
  NVMACHINES = 2
  Priority <- MCPriority
  TICKS_BEFORE_SCHEDULING = 2
  TICK_MODULUS = 2
  MESSAGELIST_SZ = 2
  Traffic <- MCTraffic
SPECIFICATION CommFairSpec
PROPERTIES
  ImplementsChannel
  MessagesFlow
