CONSTANTS
  NVMACHINES = 2
  Priority <- MCPriority
  TICKS_BEFORE_SCHEDULING = 2
  TICK_MODULUS = 2
  RedirectSize <- OneGuestRedirects
  GUEST_TICKS = 2
SPECIFICATION IrqFairSpec
INVARIANTS
  IrqsAreTracked
PROPERTIES
  InterruptsAreTaken
