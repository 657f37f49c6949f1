CONSTANTS
  NVMACHINES = 2
  Priority <- MCPriority
  TICKS_BEFORE_SCHEDULING = 1
  TICK_MODULUS = 1
  RedirectSize <- TwoGuestsRedirect
  GUEST_TICKS = 1
SPECIFICATION IrqFairSpec
PROPERTIES
  InterruptsAreTaken
